---- MODULE Spec2Model ----
(***************************************************************************)
(* Model of the SlotHashes lookup code of eisodos:                         *)
(*   programs/solana-program/src/processor.rs   manual_binary_search       *)
(*   programs/solana-nostd-entrypoint/src/processor.rs                     *)
(*                                              process_slot_hashes_bytes  *)
(* Buffers are sequences of bytes (0..255).  A u64 / usize is 64 bits      *)
(* wide; TLC integers are narrower, so a 64-bit word is kept as four       *)
(* 16-bit limbs, least significant first, and the arithmetic the code      *)
(* performs on words is carried out limb by limb at the full width.        *)
(***************************************************************************)
EXTENDS Integers, Sequences, FiniteSets, TLC

\* ------------------------------------------------------------------ bounds
\* Longest entry table the harness builds.
MaxEntries == 3
\* Small slot values 1..MaxSlot the harness draws from (next to 256 and u64::MAX).
MaxSlot == 2

\* ------------------------------------------------------- 64-bit word values
\* number of values of a u8
Byte == 2 ^ 8
Limb == Byte * Byte

\* the word of a natural small enough for TLC (n < 2^31)
U64(n) == <<n % Limb, n \div Limb, 0, 0>>

U64_MAX == <<Limb - 1, Limb - 1, Limb - 1, Limb - 1>>

\* the natural of a word; defined for words below 2^31 only
ToNat(w) == w[1] + Limb * w[2]

\* the same bytes read most significant first
from_be_bytes(b) == [k \in 1..4 |-> b[10 - 2 * k] + Byte * b[9 - 2 * k]]

\* u64::from_le_bytes: byte 0 is the least significant
from_le_bytes(b) == [k \in 1..4 |-> b[2 * k - 1] + Byte * b[2 * k]]

\* u64::to_le_bytes
to_le_bytes(w) ==
    [j \in 1..8 |-> IF j % 2 = 1 THEN w[(j + 1) \div 2] % Byte
                                 ELSE w[j \div 2] \div Byte]

\* Ord::cmp on u64
cmp(a, b) ==
    IF a[4] # b[4] THEN (IF a[4] < b[4] THEN "Less" ELSE "Greater")
    ELSE IF a[3] # b[3] THEN (IF a[3] < b[3] THEN "Less" ELSE "Greater")
    ELSE IF a[2] # b[2] THEN (IF a[2] < b[2] THEN "Less" ELSE "Greater")
    ELSE IF a[1] # b[1] THEN (IF a[1] < b[1] THEN "Less" ELSE "Greater")
    ELSE "Equal"

\* Ordering::reverse
reverse(o) == IF o = "Less" THEN "Greater" ELSE IF o = "Greater" THEN "Less" ELSE o

\* a * k at 64 bits for a small k: the wrapped product and whether it overflowed
overflowing_mul(a, k) ==
    LET p1 == a[1] * k
        p2 == a[2] * k + p1 \div Limb
        p3 == a[3] * k + p2 \div Limb
        p4 == a[4] * k + p3 \div Limb
    IN  [val |-> <<p1 % Limb, p2 % Limb, p3 % Limb, p4 % Limb>>,
         ovf |-> p4 \div Limb # 0]

\* a + b at 64 bits: the wrapped sum and whether it overflowed
overflowing_add(a, b) ==
    LET s1 == a[1] + b[1]
        s2 == a[2] + b[2] + s1 \div Limb
        s3 == a[3] + b[3] + s2 \div Limb
        s4 == a[4] + b[4] + s3 \div Limb
    IN  [val |-> <<s1 % Limb, s2 % Limb, s3 % Limb, s4 % Limb>>,
         ovf |-> s4 \div Limb # 0]

\* a - b at 64 bits, for a >= b
sub(a, b) ==
    LET d1 == a[1] - b[1]
        c1 == IF d1 < 0 THEN 1 ELSE 0
        d2 == a[2] - b[2] - c1
        c2 == IF d2 < 0 THEN 1 ELSE 0
        d3 == a[3] - b[3] - c2
        c3 == IF d3 < 0 THEN 1 ELSE 0
        d4 == a[4] - b[4] - c3
    IN  <<d1 + c1 * Limb, d2 + c2 * Limb, d3 + c3 * Limb, d4 % Limb>>

\* a / k at 64 bits for a small k > 0
div(a, k) ==
    LET n4 == a[4]
        n3 == (n4 % k) * Limb + a[3]
        n2 == (n3 % k) * Limb + a[2]
        n1 == (n2 % k) * Limb + a[1]
    IN  <<n1 \div k, n2 \div k, n3 \div k, n4 \div k>>

\* Option
None == [some |-> FALSE, v |-> <<>>]
Some(x) == [some |-> TRUE, v |-> x]

\* a multiplication that wraps instead of reporting the overflow
checked_mul_wrapping(a, k) == Some(overflowing_mul(a, k).val)

\* usize::checked_mul by a small factor
checked_mul(a, k) ==
    LET r == overflowing_mul(a, k) IN IF r.ovf THEN None ELSE Some(r.val)

\* usize::checked_add
checked_add(a, b) ==
    LET r == overflowing_add(a, b) IN IF r.ovf THEN None ELSE Some(r.val)

\* ------------------------------------------------------------ buffer layout
\* solana-program/src/processor.rs
SDK_LEN_PREFIX_SIZE == 8
SDK_ENTRY_SIZE == 40
\* solana-nostd-entrypoint/src/processor.rs
LEN_PREFIX_SIZE == 8
SLOT_HASH_ENTRY_SIZE == 40
\* width of the hash field of SlotHashEntry
HASH_BYTES == 32

\* [fill; 32]
HashFill(fill) == [j \in 1..HASH_BYTES |-> fill]

RECURSIVE EntryBytes(_)
\* the body of create_mock_slot_hashes_data's loop: slot.to_le_bytes() then the hash
EntryBytes(entries) ==
    IF entries = <<>> THEN <<>>
    ELSE to_le_bytes(Head(entries).slot) \o Head(entries).hash \o EntryBytes(Tail(entries))

\* tests::create_mock_slot_hashes_data: [u64 LE count][40-byte entries]
create_mock_slot_hashes_data(entries) ==
    to_le_bytes(U64(Len(entries))) \o EntryBytes(entries)

\* Result
Ok(x) == [ok |-> TRUE, v |-> x]
Err(e) == [ok |-> FALSE, v |-> e]

\* -------------------------------------------- solana-nostd-entrypoint program
\* SlotHashOp
IsEmpty == [kind |-> "IsEmpty", slot |-> U64(0)]
GetHash(slot) == [kind |-> "GetHash", slot |-> slot]
GetPosition(slot) == [kind |-> "GetPosition", slot |-> slot]

\* the cast with the fields of SlotHashEntry laid out hash first
cast_slice_hash_first(bytes) ==
    [i \in 1..(Len(bytes) \div SLOT_HASH_ENTRY_SIZE) |->
        LET off == (i - 1) * SLOT_HASH_ENTRY_SIZE
        IN  [slot |-> from_le_bytes(SubSeq(bytes, off + HASH_BYTES + 1, off + SLOT_HASH_ENTRY_SIZE)),
             hash |-> SubSeq(bytes, off + 1, off + HASH_BYTES)]]

\* bytemuck::cast_slice::<u8, SlotHashEntry>: one #[repr(C)] { slot: u64, hash: [u8; 32] }
\* per 40 bytes, the slot in the target's (little-endian) byte order
cast_slice(bytes) ==
    [i \in 1..(Len(bytes) \div SLOT_HASH_ENTRY_SIZE) |->
        LET off == (i - 1) * SLOT_HASH_ENTRY_SIZE
        IN  [slot |-> from_le_bytes(SubSeq(bytes, off + 1, off + 8)),
             hash |-> SubSeq(bytes, off + 9, off + SLOT_HASH_ENTRY_SIZE)]]

\* the comparator without .reverse()
search_cmp_not_reversed(entry, target_slot) == cmp(entry.slot, target_slot)

\* the comparator passed to binary_search_by: |entry| entry.slot.cmp(&target_slot).reverse()
search_cmp(entry, target_slot) == reverse(cmp(entry.slot, target_slot))

RECURSIVE binary_search_loop(_, _, _, _, _)
\* the loop of core::slice::binary_search_by: halve `size`, keep `base` at the
\* last index whose comparison is not Greater; `probes` lists the indices compared
binary_search_loop(entries, target_slot, base, size, probes) ==
    IF size > 1
    THEN LET half == size \div 2
             mid == base + half
             c == search_cmp(entries[mid + 1], target_slot)
         IN  binary_search_loop(entries, target_slot,
                                IF c = "Greater" THEN base ELSE mid,
                                size - half, Append(probes, mid))
    ELSE [base |-> base, probes |-> probes]

\* entries.binary_search_by(f): Ok(index) of the match or Err(insertion point),
\* with the indices it compared
binary_search_by(entries, target_slot) ==
    IF Len(entries) = 0
    THEN [res |-> Err(U64(0)), probes |-> <<>>]
    ELSE LET l == binary_search_loop(entries, target_slot, 0, Len(entries), <<>>)
             c == search_cmp(entries[l.base + 1], target_slot)
         IN  [res |-> IF c = "Equal" THEN Ok(U64(l.base))
                      ELSE Err(U64(l.base + (IF c = "Less" THEN 1 ELSE 0))),
              probes |-> Append(l.probes, l.base)]

\* ok that keeps the index of an Err as well
ok_or_insertion(r) == Some(r.v)

\* Result::ok
ok(r) == IF r.ok THEN Some(r.v) ELSE None

\* the second length check left out
data_too_small_unchecked(len, entries_data_end) == FALSE

\* `data.len() < entries_data_end`
data_too_small(len, entries_data_end) == cmp(U64(len), entries_data_end) = "Less"

\* the outcome of a call that panicked instead of returning
Panicked == [ok |-> FALSE, v |-> "panic"]

\* process_slot_hashes_bytes(data, operation): the value returned (ret) and the
\* indices of the entries whose slot it compared (reads)
process_slot_hashes_bytes(d, operation) ==
    IF Len(d) < LEN_PREFIX_SIZE
    THEN [ret |-> Err("AccountDataTooSmall"), reads |-> <<>>]
    ELSE
    LET num_entries == from_le_bytes(SubSeq(d, 1, LEN_PREFIX_SIZE))
        entries_data_start == LEN_PREFIX_SIZE
        product == checked_mul(num_entries, SLOT_HASH_ENTRY_SIZE)
        entries_data_end ==
            IF product.some THEN checked_add(U64(entries_data_start), product.v) ELSE None
    IN  IF ~entries_data_end.some
        THEN [ret |-> Err("ArithmeticOverflow"), reads |-> <<>>]
        ELSE IF data_too_small(Len(d), entries_data_end.v)
        THEN [ret |-> Err("AccountDataTooSmall"), reads |-> <<>>]
        ELSE IF cmp(entries_data_end.v, U64(Len(d))) = "Greater"
        \* &data[entries_data_start..entries_data_end] past the end: slice index panic
        THEN [ret |-> Panicked, reads |-> <<>>]
        ELSE
        LET entries == cast_slice(SubSeq(d, entries_data_start + 1, ToNat(entries_data_end.v)))
        IN  IF operation.kind = "IsEmpty"
            THEN [ret |-> Ok(None), reads |-> <<>>]
            ELSE LET search_result == binary_search_by(entries, operation.slot)
                 IN  [ret |-> Ok(ok(search_result.res)), reads |-> search_result.probes]

\* ------------------------------------------------------------------- state
VARIABLES
    entries,      \* the (slot, hash) list the harness built the buffer from
    declared,     \* the entry count the harness wrote into the length prefix
    data,         \* the account data: a sequence of bytes
    target_slot,  \* the slot looked up
    mbs,          \* manual_binary_search: position, locals, probes, return value
    psh,          \* the last process_slot_hashes_bytes call: operation, result, reads
    accounts,     \* the account slice handed to a processor: key and data of each
    expected,     \* the `expected` argument of process_account
    proc,         \* the last processor call: program, function, result
    ix,           \* the ProgramInstruction the benchmark encodes
    input,        \* the instruction data: a sequence of bytes
    unpacked,     \* Instruction::unpack(input) of pinocchio and of solana-nostd-entrypoint
    entry,        \* process_instruction: position, decoded instruction, processors run, result
    gen,          \* generate_mock_slot_hashes_data: position, locals, entries pushed
    pin           \* the last pinocchio SlotHashes call: position, locals, result

\* the variables of the searches, of the processors, of the wire format
searchVars == <<entries, declared, data, target_slot, mbs, psh>>
procVars == <<accounts, expected, proc>>
wireVars == <<ix, input, unpacked, entry>>

vars == <<searchVars, procVars, wireVars, gen, pin>>

\* slots and targets the harness draws from
Slots == {U64(k) : k \in 1..MaxSlot} \cup {U64(Byte), U64_MAX}
Targets == Slots \cup {U64(0)}

RECURSIVE SeqsUpTo(_, _)
\* all sequences over S of length at most n
SeqsUpTo(S, n) ==
    IF n = 0 THEN {<<>>}
    ELSE LET shorter == SeqsUpTo(S, n - 1)
         IN  shorter \cup {Append(q, x) : q \in {r \in shorter : Len(r) = n - 1}, x \in S}

\* entry i of a mock table carries the hash [i; 32], as in the tests
MockEntries(slots) == [i \in 1..Len(slots) |-> [slot |-> slots[i], hash |-> HashFill(i)]]

\* entry[i].slot > entry[i+1].slot for all i
StrictlyDescending(es) ==
    \A i \in 1..(Len(es) - 1) : cmp(es[i].slot, es[i + 1].slot) = "Greater"

\* usize::MAX / 40: the largest entry count whose table size fits a word
MaxFitCount == div(U64_MAX, SLOT_HASH_ENTRY_SIZE)

\* bytes needed by a table of n entries
TableLen(n) == LEN_PREFIX_SIZE + n * SLOT_HASH_ENTRY_SIZE

\* the (declared count, buffer length) pairs the harness gives a table of n entries:
\* exact, one trailing byte, one byte short, one entry short, the 5-byte slice of
\* the tests, a zero count before the entries, and three counts at and above the
\* overflow threshold
Shapes(n) ==
    { <<U64(n), TableLen(n)>>, <<U64(n), TableLen(n) + 1>>, <<U64(n), TableLen(n) - 1>>,
      <<U64(n + 1), TableLen(n)>>, <<U64(n), 5>>, <<U64(0), TableLen(n)>>,
      <<MaxFitCount, TableLen(n)>>,
      <<overflowing_add(MaxFitCount, U64(1)).val, TableLen(n)>>,
      <<U64_MAX, TableLen(n)>> }

\* create_mock_slot_hashes_data with the prefix set to `count`, cut or zero-padded to `len`
BuildData(es, count, len) ==
    LET full == to_le_bytes(count) \o EntryBytes(es)
    IN  IF len <= Len(full) THEN SubSeq(full, 1, len)
        ELSE full \o [j \in 1..(len - Len(full)) |-> 0]

MbsIdle == [pc |-> "idle", low |-> U64(0), high |-> U64(0), probes |-> <<>>, ret |-> Err(U64(0))]
PshIdle == [called |-> FALSE, op |-> IsEmpty, ret |-> Ok(None), reads |-> <<>>]

\* no processor has been called, and none will be
ProcIdle ==
    [called |-> FALSE, program |-> "", fn |-> "", ret |-> Ok("()"),
     cpis |-> <<>>, instruction_data |-> <<>>]
ProcUnused == accounts = <<>> /\ expected = U64(0) /\ proc = ProcIdle

\* nothing has been encoded or unpacked
NotUnpacked == [called |-> FALSE, ret |-> Err("")]
WireIdle == [pinocchio |-> NotUnpacked, nostd |-> NotUnpacked]
\* process_instruction has not been entered
EntryIdle ==
    [pc |-> "idle", program |-> "", instruction |-> Err(""), ran |-> <<>>, cpis |-> <<>>,
     processor_ret |-> Ok("()"), ret |-> Ok("()")]
WireUnused ==
    /\ ix = [kind |-> "Ping", arg |-> U64(0)] /\ input = <<>> /\ unpacked = WireIdle
    /\ entry = EntryIdle

\* generate_mock_slot_hashes_data has not been called
GenIdle == [pc |-> "idle", strategy |-> "Strictly1", i |-> 0, current_slot |-> 0,
            entries |-> <<>>, broke |-> FALSE]
GenUnused == gen = GenIdle

\* no SlotHashes accessor has been called
PinIdle == [pc |-> "idle", fn |-> "", index |-> 0, low |-> 0, high |-> 0, probes |-> <<>>,
            ret |-> None]
PinUnused == pin = PinIdle

\* no search runs: an empty buffer, both searches idle
SearchUnused ==
    /\ entries = <<>> /\ declared = U64(0) /\ data = <<>> /\ target_slot = U64(0)
    /\ mbs = MbsIdle /\ psh = PshIdle

\* tables over the slots S in the shapes of the harness, a target from T, no
\* search begun
InitSearchOver(S, T) ==
    /\ \E slots \in SeqsUpTo(S, MaxEntries) :
       \E shape \in Shapes(Len(slots)) :
          /\ entries = MockEntries(slots)
          /\ declared = shape[1]
          /\ data = BuildData(entries, shape[1], shape[2])
          \* unsorted tables are built at their exact size only
          /\ StrictlyDescending(entries) \/ shape = <<U64(Len(slots)), TableLen(Len(slots))>>
    /\ target_slot \in T
    /\ mbs = MbsIdle
    /\ psh = PshIdle

\* the buffers and targets of the search tests
InitSearch == InitSearchOver(Slots, Targets)

Init == InitSearch /\ ProcUnused /\ WireUnused /\ GenUnused /\ PinUnused

\* ------------------------------------------------- solana-program program
\* manual_binary_search, lines 60-68: the length guard, the prefix, low and high
manual_binary_search_entry(m, d) ==
    IF Len(d) < SDK_LEN_PREFIX_SIZE
    THEN [m EXCEPT !.pc = "done", !.ret = Err(U64(0))]
    ELSE [m EXCEPT !.pc = "loop", !.low = U64(0),
                   !.high = from_le_bytes(SubSeq(d, 1, SDK_LEN_PREFIX_SIZE))]

manual_binary_search_enter ==
    /\ mbs.pc = "idle"
    /\ mbs' = manual_binary_search_entry(mbs, data)
    /\ UNCHANGED <<entries, declared, data, target_slot, psh>>
    /\ UNCHANGED <<procVars, wireVars, gen, pin>>

\* `low <= high`
loop_cond_inclusive(low, high) == cmp(low, high) # "Greater"

\* `low < high`
loop_cond(low, high) == cmp(low, high) = "Less"

\* `(high - low) / 2`, the offset without the base
midpoint_no_base(low, high) == div(sub(high, low), 2)

\* `low + (high - low) / 2`
midpoint(low, high) == overflowing_add(low, div(sub(high, low), 2)).val

\* narrow with the Less and Greater arms exchanged (an ascending-order search)
narrow_ascending(m, mid, ord) ==
    IF ord = "Equal" THEN [m EXCEPT !.pc = "done", !.ret = Ok(mid)]
    ELSE IF ord = "Greater" THEN [m EXCEPT !.high = mid]
    ELSE [m EXCEPT !.low = overflowing_add(mid, U64(1)).val]

\* narrow with `low = mid` in the Greater arm
narrow_low_mid(m, mid, ord) ==
    IF ord = "Equal" THEN [m EXCEPT !.pc = "done", !.ret = Ok(mid)]
    ELSE IF ord = "Less" THEN [m EXCEPT !.high = mid]
    ELSE [m EXCEPT !.low = mid]

\* narrow with `high = mid - 1` in the Less arm
narrow_high_minus_one(m, mid, ord) ==
    IF ord = "Equal" THEN [m EXCEPT !.pc = "done", !.ret = Ok(mid)]
    ELSE IF ord = "Less"
         THEN [m EXCEPT !.high = IF mid = U64(0) THEN U64_MAX ELSE sub(mid, U64(1))]
    ELSE [m EXCEPT !.low = overflowing_add(mid, U64(1)).val]

\* the match on current_slot.cmp(&target_slot): found, or one bound moved
narrow(m, mid, ord) ==
    IF ord = "Equal" THEN [m EXCEPT !.pc = "done", !.ret = Ok(mid)]
    ELSE IF ord = "Less" THEN [m EXCEPT !.high = mid]
    ELSE [m EXCEPT !.low = overflowing_add(mid, U64(1)).val]

\* one evaluation of `while low < high` and its body, or the final Err(low), on
\* buffer d for target t.  overflow_checks: whether the build traps on usize
\* overflow (debug, or overflow-checks = true) or wraps (release).
manual_binary_search_iter(m, d, t, overflow_checks) ==
    IF ~loop_cond(m.low, m.high)
    THEN [m EXCEPT !.pc = "done", !.ret = Err(m.low)]
    ELSE
    LET mid == midpoint(m.low, m.high)
        product == overflowing_mul(mid, SDK_ENTRY_SIZE)
        entry_offset == overflowing_add(U64(SDK_LEN_PREFIX_SIZE), product.val)
        slot_end == overflowing_add(entry_offset.val, U64(8))
    IN  IF overflow_checks /\ (product.ovf \/ entry_offset.ovf \/ slot_end.ovf)
        THEN [m EXCEPT !.pc = "panic"]
        ELSE IF cmp(slot_end.val, U64(Len(d))) = "Greater"
        THEN [m EXCEPT !.pc = "done", !.ret = Err(m.low)]
        ELSE IF cmp(entry_offset.val, slot_end.val) = "Greater"
        \* data[entry_offset..entry_offset + 8] with a wrapped end: slice index panic
        THEN [m EXCEPT !.pc = "panic"]
        ELSE
        LET off == ToNat(entry_offset.val)
            current_slot == from_le_bytes(SubSeq(d, off + 1, off + 8))
        IN  narrow([m EXCEPT !.probes = Append(m.probes, mid)], mid,
                   cmp(current_slot, t))

RECURSIVE manual_binary_search_run(_, _, _)
\* the loop run to its end
manual_binary_search_run(m, d, t) ==
    IF m.pc = "loop"
    THEN manual_binary_search_run(manual_binary_search_iter(m, d, t, TRUE), d, t)
    ELSE m

\* manual_binary_search(data, target_slot) as one call: its final position and value
manual_binary_search(d, t) ==
    manual_binary_search_run(manual_binary_search_entry(MbsIdle, d), d, t)

manual_binary_search_step ==
    /\ mbs.pc = "loop"
    /\ \E overflow_checks \in BOOLEAN : mbs' = manual_binary_search_iter(mbs, data, target_slot, overflow_checks)
    /\ UNCHANGED <<entries, declared, data, target_slot, psh>>
    /\ UNCHANGED <<procVars, wireVars, gen, pin>>

\* a call of process_slot_hashes_bytes(&data, operation)
call_process_slot_hashes_bytes ==
    /\ \E operation \in {IsEmpty, GetHash(target_slot), GetPosition(target_slot)} :
          LET r == process_slot_hashes_bytes(data, operation)
          IN  psh' = [called |-> TRUE, op |-> operation, ret |-> r.ret, reads |-> r.reads]
    /\ UNCHANGED <<entries, declared, data, target_slot, mbs>>
    /\ UNCHANGED <<procVars, wireVars, gen, pin>>

Next ==
    \/ manual_binary_search_enter
    \/ manual_binary_search_step
    \/ call_process_slot_hashes_bytes

Spec == Init /\ [][Next]_vars

TypeOK ==
    /\ mbs.pc \in {"idle", "loop", "done", "panic"}
    /\ Len(data) <= TableLen(MaxEntries) + 1
    /\ \A i \in 1..Len(data) : data[i] \in 0..(Byte - 1)

\* ------------------------------------------------------------- processors
MaxAccounts == 2

\* the pointer width of the target in 16-bit limbs: usize has 64 bits on SBF
USIZE_LIMBS == 4

\* `expected as usize` on a target whose usize has 32 bits
as_usize_32(w) == [k \in 1..4 |-> IF k <= 2 THEN w[k] ELSE 0]

\* `expected as usize`: the low USIZE_LIMBS limbs of the u64
as_usize(w) == [k \in 1..4 |-> IF k <= USIZE_LIMBS THEN w[k] ELSE 0]

\* sysvar::slot_hashes::ID, and the Pubkey::new_unique() of the tests
sysvar_slot_hashes_ID == "SysvarS1otHashes111111111111111111111111111"
wrong_key == "1111111QLbz7JHiBTspS962RLKV8GndWFwiEaqKM"

\* an AccountInfo: the fields the processors read
AccountInfo(key, d) == [key |-> key, data |-> d]

\* the unit value of Ok(())
Unit == "()"

\* pinocchio: process_account
pinocchio_process_account(accs, exp) ==
    IF U64(Len(accs)) = as_usize(exp) THEN Ok(Unit) ELSE Err("InvalidArgument")

\* solana-nostd-entrypoint: process_account
nostd_process_account(accs, exp) ==
    IF U64(Len(accs)) = as_usize(exp) THEN Ok(Unit) ELSE Err("InvalidArgument")

\* solana-program: process_account
solana_program_process_account(accs, exp) ==
    IF U64(Len(accs)) = as_usize(exp) THEN Ok(Unit) ELSE Err("InvalidArgument")

RECURSIVE manual_binary_search_run_on(_, _, _, _)
\* the loop run to its end in a build that traps on overflow, or in one that wraps
manual_binary_search_run_on(m, d, t, overflow_checks) ==
    IF m.pc = "loop"
    THEN manual_binary_search_run_on(manual_binary_search_iter(m, d, t, overflow_checks),
                                     d, t, overflow_checks)
    ELSE m

\* solana-program: `accounts.get(0).ok_or(NotEnoughAccountKeys)?` and the key check
slot_hashes_account(accs) ==
    IF Len(accs) = 0 THEN Err("NotEnoughAccountKeys")
    ELSE IF accs[1].key # sysvar_slot_hashes_ID THEN Err("IncorrectProgramId")
    ELSE Ok(accs[1].data)

\* solana-program: process_slot_hashes_get_entry
solana_program_process_slot_hashes_get_entry(accs) ==
    LET account == slot_hashes_account(accs)
    IN  IF ~account.ok THEN account
        ELSE IF Len(account.v) < SDK_LEN_PREFIX_SIZE THEN Err("AccountDataTooSmall")
        ELSE Ok(Unit)

\* solana-program: process_slot_hashes_get_hash_interpolated; the search result
\* is dropped, a panic of the search is not
solana_program_process_slot_hashes_get_hash_interpolated(accs, overflow_checks) ==
    LET account == slot_hashes_account(accs)
    IN  IF ~account.ok THEN account
        ELSE LET m == manual_binary_search_run_on(
                          manual_binary_search_entry(MbsIdle, account.v),
                          account.v, U64(0), overflow_checks)
             IN  IF m.pc = "panic" THEN Panicked ELSE Ok(Unit)

\* solana-program: process_slot_hashes_position_interpolated
solana_program_process_slot_hashes_position_interpolated(accs, overflow_checks) ==
    LET account == slot_hashes_account(accs)
    IN  IF ~account.ok THEN account
        ELSE LET m == manual_binary_search_run_on(
                          manual_binary_search_entry(MbsIdle, account.v),
                          account.v, U64(0), overflow_checks)
             IN  IF m.pc = "panic" THEN Panicked ELSE Ok(Unit)

\* solana-program: process_slot_hashes_get_hash_midpoint
solana_program_process_slot_hashes_get_hash_midpoint(accs, overflow_checks) ==
    solana_program_process_slot_hashes_get_hash_interpolated(accs, overflow_checks)

\* solana-program: process_slot_hashes_position_midpoint
solana_program_process_slot_hashes_position_midpoint(accs, overflow_checks) ==
    solana_program_process_slot_hashes_position_interpolated(accs, overflow_checks)

\* the four processors that search
SearchProcessors ==
    {"process_slot_hashes_get_hash_interpolated", "process_slot_hashes_position_interpolated",
     "process_slot_hashes_get_hash_midpoint", "process_slot_hashes_position_midpoint"}

\* the slot-hash processor named fn applied to accs
solana_program_slot_hashes(fn, accs, overflow_checks) ==
    IF fn = "process_slot_hashes_get_entry"
    THEN solana_program_process_slot_hashes_get_entry(accs)
    ELSE IF fn = "process_slot_hashes_get_hash_interpolated"
    THEN solana_program_process_slot_hashes_get_hash_interpolated(accs, overflow_checks)
    ELSE IF fn = "process_slot_hashes_position_interpolated"
    THEN solana_program_process_slot_hashes_position_interpolated(accs, overflow_checks)
    ELSE IF fn = "process_slot_hashes_get_hash_midpoint"
    THEN solana_program_process_slot_hashes_get_hash_midpoint(accs, overflow_checks)
    ELSE solana_program_process_slot_hashes_position_midpoint(accs, overflow_checks)

\* the account data of the tests: a table that holds slot 0, one that does not,
\* the empty table, a 5-byte slice, and a table whose prefix is u64::MAX
AccountDatas ==
    { create_mock_slot_hashes_data(MockEntries(<<U64(2), U64(1), U64(0)>>)),
      create_mock_slot_hashes_data(MockEntries(<<U64(2), U64(1)>>)),
      create_mock_slot_hashes_data(<<>>),
      <<0, 0, 0, 0, 0>>,
      to_le_bytes(U64_MAX) }

AccountInfos == {AccountInfo(k, d) : k \in {sysvar_slot_hashes_ID, wrong_key}, d \in AccountDatas}

\* the `expected` values: around the slice lengths, one above 2^32, and u64::MAX
Expecteds == {U64(n) : n \in 0..(MaxAccounts + 1)} \cup {<<1, 0, 1, 0>>, U64_MAX}

\* crate::ID, the program's own id
crate_ID == "crate::ID"

\* what a call of a processor leaves behind: the value it returns and the
\* cross-program invocations it made, in order
Outcome(ret, cpis) == [ret |-> ret, cpis |-> cpis]

\* the values a cross-program invocation can return to its caller
CpiResults == {Ok(Unit), Err("Custom")}

\* a CreateAccount invocation of the system program: the arguments handed to
\* create_account_unchecked, to invoke(&create_account(..), ..) or to
\* invoke_signed_unchecked
create_account(from, to, lamports, space, owner) ==
    [instruction |-> "CreateAccount", from |-> from, to |-> to,
     lamports |-> lamports, space |-> space, owner |-> owner]

\* a Transfer invocation of the system program
transfer(from, to, lamports) ==
    [instruction |-> "Transfer", from |-> from, to |-> to, lamports |-> lamports]

\* the slice pattern that takes exactly two accounts
first_two_exactly(accs) ==
    IF Len(accs) = 2 THEN Some(<<accs[1], accs[2]>>) ELSE None

\* `let [from, to, _remaining @ ..] = accounts else { ... }`
first_two(accs) ==
    IF Len(accs) >= 2 THEN Some(<<accs[1], accs[2]>>) ELSE None

\* pinocchio: process_create_account; cpi_ret is what the invocation returns
pinocchio_process_create_account(accs, cpi_ret) ==
    LET from_to == first_two(accs)
    IN  IF ~from_to.some THEN Outcome(Err("InvalidArgument"), <<>>)
        ELSE Outcome(cpi_ret, <<create_account(from_to.v[1], from_to.v[2],
                                               U64(500000000), U64(10), crate_ID)>>)

\* pinocchio: process_transfer
pinocchio_process_transfer(accs, cpi_ret) ==
    LET from_to == first_two(accs)
    IN  IF ~from_to.some THEN Outcome(Err("InvalidArgument"), <<>>)
        ELSE Outcome(cpi_ret, <<transfer(from_to.v[1], from_to.v[2], U64(1000000000))>>)

\* solana-nostd-entrypoint: process_create_account
nostd_process_create_account(accs, cpi_ret) ==
    LET from_to == first_two(accs)
    IN  IF ~from_to.some THEN Outcome(Err("InvalidArgument"), <<>>)
        ELSE Outcome(cpi_ret, <<create_account(from_to.v[1], from_to.v[2],
                                               U64(500000000), U64(10), crate_ID)>>)

\* solana-nostd-entrypoint: process_transfer
nostd_process_transfer(accs, cpi_ret) ==
    LET from_to == first_two(accs)
    IN  IF ~from_to.some THEN Outcome(Err("InvalidArgument"), <<>>)
        ELSE Outcome(cpi_ret, <<transfer(from_to.v[1], from_to.v[2], U64(1000000000))>>)

\* solana-program: process_create_account; accounts[0] and accounts[1] are
\* indexed before the invocation, an index past the end panics
solana_program_process_create_account(accs, cpi_ret) ==
    IF Len(accs) < 2 THEN Outcome(Panicked, <<>>)
    ELSE Outcome(cpi_ret, <<create_account(accs[1], accs[2],
                                           U64(500000000), U64(10), crate_ID)>>)

\* solana-program: process_transfer
solana_program_process_transfer(accs, cpi_ret) ==
    IF Len(accs) < 2 THEN Outcome(Panicked, <<>>)
    ELSE Outcome(cpi_ret, <<transfer(accs[1], accs[2], U64(1000000000))>>)

\* create-account-crate: the layout of its instruction data
CREATE_ACCOUNT_INSTRUCTION_TAG == 0
LAMPORTS_OFFSET == 1
SPACE_OFFSET == 9
CREATE_REQUIRED_INSTRUCTION_DATA_LEN == 17

\* create-account-crate, no_std: pinocchio_benches::run_create_account_bench;
\* invoke_signed_unchecked returns nothing, the function returns Ok(())
run_create_account_bench(program_id, accs, instruction_data) ==
    IF instruction_data = <<>> \/ instruction_data[1] # CREATE_ACCOUNT_INSTRUCTION_TAG
    THEN Outcome(Err("InvalidInstructionData"), <<>>)
    ELSE IF Len(instruction_data) < CREATE_REQUIRED_INSTRUCTION_DATA_LEN
    THEN Outcome(Err("InvalidInstructionData"), <<>>)
    ELSE LET lamports == from_le_bytes(SubSeq(instruction_data, LAMPORTS_OFFSET + 1, SPACE_OFFSET))
             space == from_le_bytes(SubSeq(instruction_data, SPACE_OFFSET + 1,
                                           CREATE_REQUIRED_INSTRUCTION_DATA_LEN))
         IN  IF Len(accs) < 2 THEN Outcome(Panicked, <<>>)
             ELSE Outcome(Ok(Unit), <<create_account(accs[1], accs[2], lamports, space, program_id)>>)

\* transfer-crate: the layout of its instruction data
TRANSFER_INSTRUCTION_TAG == 0
AMOUNT_OFFSET == 1
TRANSFER_REQUIRED_INSTRUCTION_DATA_LEN == 9

\* transfer-crate, no_std: pinocchio_benches::run_transfer_bench
run_transfer_bench(accs, instruction_data) ==
    IF instruction_data = <<>> \/ instruction_data[1] # TRANSFER_INSTRUCTION_TAG
    THEN Outcome(Err("InvalidInstructionData"), <<>>)
    ELSE IF Len(instruction_data) < TRANSFER_REQUIRED_INSTRUCTION_DATA_LEN
    THEN Outcome(Err("InvalidInstructionData"), <<>>)
    ELSE LET amount == from_le_bytes(SubSeq(instruction_data, AMOUNT_OFFSET + 1,
                                            TRANSFER_REQUIRED_INSTRUCTION_DATA_LEN))
         IN  IF Len(accs) < 2 THEN Outcome(Panicked, <<>>)
             ELSE Outcome(Ok(Unit), <<transfer(accs[1], accs[2], amount)>>)

\* the first account taken whatever its key
nostd_slot_hashes_account_any_key(accs) ==
    IF Len(accs) = 0 THEN Err("InvalidArgument") ELSE Ok(accs[1].data)

\* solana-nostd-entrypoint:
\* `accounts.get(0).filter(|acc| acc.key() == &ID).ok_or(InvalidArgument)?`
nostd_slot_hashes_account(accs) ==
    IF Len(accs) = 0 \/ accs[1].key # sysvar_slot_hashes_ID THEN Err("InvalidArgument")
    ELSE Ok(accs[1].data)

\* `.map(|_| ())` on the result of process_slot_hashes_bytes
map_unit(r) == IF r.ok THEN Ok(Unit) ELSE r

\* solana-nostd-entrypoint: process_slot_hashes_get_entry
nostd_process_slot_hashes_get_entry(accs) ==
    LET account == nostd_slot_hashes_account(accs)
    IN  IF ~account.ok THEN account
        ELSE map_unit(process_slot_hashes_bytes(account.v, IsEmpty).ret)

\* solana-nostd-entrypoint: process_slot_hashes_get_hash_interpolated
nostd_process_slot_hashes_get_hash_interpolated(accs) ==
    LET account == nostd_slot_hashes_account(accs)
    IN  IF ~account.ok THEN account
        ELSE map_unit(process_slot_hashes_bytes(account.v, GetHash(U64(0))).ret)

\* solana-nostd-entrypoint: process_slot_hashes_position_interpolated
nostd_process_slot_hashes_position_interpolated(accs) ==
    LET account == nostd_slot_hashes_account(accs)
    IN  IF ~account.ok THEN account
        ELSE map_unit(process_slot_hashes_bytes(account.v, GetPosition(U64(0))).ret)

\* the slot-hash processors of solana-nostd-entrypoint and the operation of each
NostdSlotHashProcessors ==
    {"process_slot_hashes_get_entry", "process_slot_hashes_get_hash_interpolated",
     "process_slot_hashes_position_interpolated"}

\* the account slices: every one up to MaxAccounts, and those one longer that
\* are built from two accounts
InitProc ==
    /\ SearchUnused /\ WireUnused /\ GenUnused /\ PinUnused
    /\ accounts \in SeqsUpTo(AccountInfos, MaxAccounts) \cup
          [1..(MaxAccounts + 1) ->
              {AccountInfo(sysvar_slot_hashes_ID, create_mock_slot_hashes_data(<<>>)),
               AccountInfo(wrong_key, <<0, 0, 0, 0, 0>>)}]
    /\ expected \in Expecteds
    /\ proc = ProcIdle

\* a call of process_account(accounts, expected) of one of the three programs
call_process_account ==
    /\ ~proc.called
    /\ \E program \in {"pinocchio", "solana-nostd-entrypoint", "solana-program"} :
          proc' = [called |-> TRUE, program |-> program, fn |-> "process_account",
                   ret |-> IF program = "pinocchio"
                           THEN pinocchio_process_account(accounts, expected)
                           ELSE IF program = "solana-nostd-entrypoint"
                           THEN nostd_process_account(accounts, expected)
                           ELSE solana_program_process_account(accounts, expected),
                   cpis |-> <<>>, instruction_data |-> <<>>]
    /\ UNCHANGED <<accounts, expected, searchVars, wireVars, gen, pin>>

\* a call of one slot-hash processor of solana-program on accounts
call_solana_program_slot_hashes ==
    /\ ~proc.called
    /\ \E fn \in SearchProcessors \cup {"process_slot_hashes_get_entry"} :
       \E overflow_checks \in BOOLEAN :
          proc' = [called |-> TRUE, program |-> "solana-program", fn |-> fn,
                   ret |-> solana_program_slot_hashes(fn, accounts, overflow_checks),
                   cpis |-> <<>>, instruction_data |-> <<>>]
    /\ UNCHANGED <<accounts, expected, searchVars, wireVars, gen, pin>>

\* a call of one slot-hash processor of solana-nostd-entrypoint on accounts
call_nostd_slot_hashes ==
    /\ ~proc.called
    /\ \E fn \in NostdSlotHashProcessors :
          proc' = [called |-> TRUE, program |-> "solana-nostd-entrypoint", fn |-> fn,
                   ret |-> IF fn = "process_slot_hashes_get_entry"
                           THEN nostd_process_slot_hashes_get_entry(accounts)
                           ELSE IF fn = "process_slot_hashes_get_hash_interpolated"
                           THEN nostd_process_slot_hashes_get_hash_interpolated(accounts)
                           ELSE nostd_process_slot_hashes_position_interpolated(accounts),
                   cpis |-> <<>>, instruction_data |-> <<>>]
    /\ UNCHANGED <<accounts, expected, searchVars, wireVars, gen, pin>>

\* a call of process_create_account or process_transfer of one of the three
\* programs on accounts
call_create_or_transfer ==
    /\ ~proc.called
    /\ \E program \in {"pinocchio", "solana-nostd-entrypoint", "solana-program"} :
       \E fn \in {"process_create_account", "process_transfer"} :
       \E cpi_ret \in CpiResults :
          LET o == IF program = "pinocchio"
                   THEN IF fn = "process_create_account"
                        THEN pinocchio_process_create_account(accounts, cpi_ret)
                        ELSE pinocchio_process_transfer(accounts, cpi_ret)
                   ELSE IF program = "solana-nostd-entrypoint"
                   THEN IF fn = "process_create_account"
                        THEN nostd_process_create_account(accounts, cpi_ret)
                        ELSE nostd_process_transfer(accounts, cpi_ret)
                   ELSE IF fn = "process_create_account"
                        THEN solana_program_process_create_account(accounts, cpi_ret)
                        ELSE solana_program_process_transfer(accounts, cpi_ret)
          IN  proc' = [called |-> TRUE, program |-> program, fn |-> fn,
                       ret |-> o.ret, cpis |-> o.cpis, instruction_data |-> <<>>]
    /\ UNCHANGED <<accounts, expected, searchVars, wireVars, gen, pin>>

\* a call of the no_std bench function of an example crate on accounts; the
\* instruction data is nothing, a wrong tag, or tag 0 with 0, 7, 8, 15 or 16
\* bytes after it
call_example_bench ==
    /\ ~proc.called
    /\ \E instruction_data \in
             {<<>>, <<1>>} \cup {<<0>> \o [j \in 1..n |-> j] : n \in {0, 7, 8, 15, 16}} :
       \E fn \in {"run_create_account_bench", "run_transfer_bench"} :
          LET o == IF fn = "run_create_account_bench"
                   THEN run_create_account_bench(crate_ID, accounts, instruction_data)
                   ELSE run_transfer_bench(accounts, instruction_data)
          IN  proc' = [called |-> TRUE,
                       program |-> IF fn = "run_create_account_bench"
                                   THEN "create-account-crate" ELSE "transfer-crate",
                       fn |-> fn, ret |-> o.ret, cpis |-> o.cpis,
                       instruction_data |-> instruction_data]
    /\ UNCHANGED <<accounts, expected, searchVars, wireVars, gen, pin>>

NextProc ==
    \/ call_process_account
    \/ call_solana_program_slot_hashes
    \/ call_nostd_slot_hashes
    \/ call_create_or_transfer
    \/ call_example_bench

SpecProc == InitProc /\ [][NextProc]_vars

\* ----------------------------------------------------------- wire format
\* a ProgramInstruction of the benchmark, an Instruction of a program: the
\* variant and its u64 field (zero for the variants without one)
ProgramInstruction(kind, arg) == [kind |-> kind, arg |-> arg]
Instruction(kind, field) == [kind |-> kind, arg |-> field]

\* the variants of ProgramInstruction that carry a u64
WithArg ==
    {"Account", "SlotHashesPositionInterpolatedUnchecked", "SlotHashesPositionNaiveUnchecked"}

\* the discriminant byte instruction_data pushes for each variant
instruction_tag(kind) ==
    CASE kind = "Ping" -> 0
      [] kind = "Log" -> 1
      [] kind = "Account" -> 2
      [] kind = "CreateAccount" -> 3
      [] kind = "Transfer" -> 4
      [] kind = "SlotHashesGetEntryChecked" -> 5
      [] kind = "SlotHashesGetHashChecked" -> 6
      [] kind = "SlotHashesPositionChecked" -> 7
      [] kind = "SlotHashesGetEntryUnchecked" -> 8
      [] kind = "SlotHashesGetHashInterpolatedUnchecked" -> 9
      [] kind = "SlotHashesPositionInterpolatedUnchecked" -> 10
      [] kind = "SlotHashesPositionNaiveUnchecked" -> 11
      [] OTHER -> 255

\* benchmark: instruction_data
instruction_data(instruction) ==
    IF instruction.kind \in WithArg
    THEN <<instruction_tag(instruction.kind)>> \o to_le_bytes(instruction.arg)
    ELSE <<instruction_tag(instruction.kind)>>

\* the nostd table with tags 6 and 7 exchanged
nostd_variants_swapped ==
    <<"Ping", "Log", "Account", "CreateAccount", "Transfer",
      "SlotHashesGetEntry", "SlotHashesPositionInterpolated", "SlotHashesGetHashInterpolated">>

\* solana-nostd-entrypoint: the variant unpack yields for tag k is the (k+1)-th
nostd_variants ==
    <<"Ping", "Log", "Account", "CreateAccount", "Transfer",
      "SlotHashesGetEntry", "SlotHashesGetHashInterpolated", "SlotHashesPositionInterpolated">>

\* pinocchio: the variant unpack yields for tag k is the (k+1)-th
pinocchio_variants ==
    <<"Ping", "Log", "Account", "CreateAccount", "Transfer",
      "SlotHashesGetEntry", "SlotHashesGetHashInterpolated", "SlotHashesPositionInterpolated",
      "SlotHashesGetHashMidpoint", "SlotHashesPositionMidpoint",
      "SlotHashesGetEntryUnchecked", "SlotHashesGetHashInterpolatedUnchecked",
      "SlotHashesPositionInterpolatedUnchecked", "SlotHashesGetHashMidpointUnchecked",
      "SlotHashesPositionMidpointUnchecked">>

\* unpack with the payload of the payload-free tags ignored
unpack_any_payload(variants, bytes) ==
    IF bytes = <<>> THEN Err("InvalidInstructionData")
    ELSE LET tag == Head(bytes)
             remaining == Tail(bytes)
         IN  IF tag = 2 /\ Len(remaining) = 8
             THEN Ok(Instruction("Account", from_le_bytes(SubSeq(remaining, 1, 8))))
             ELSE IF tag # 2 /\ tag < Len(variants)
             THEN Ok(Instruction(variants[tag + 1], U64(0)))
             ELSE Err("InvalidInstructionData")

\* `match input.split_first()` over the arms of a program whose variants are
\* `variants`: tag 2 takes exactly 8 more bytes, every other tag none
unpack(variants, bytes) ==
    IF bytes = <<>> THEN Err("InvalidInstructionData")
    ELSE LET tag == Head(bytes)
             remaining == Tail(bytes)
         IN  IF tag = 2 /\ Len(remaining) = 8
             THEN Ok(Instruction("Account", from_le_bytes(SubSeq(remaining, 1, 8))))
             ELSE IF tag # 2 /\ tag < Len(variants) /\ remaining = <<>>
             THEN Ok(Instruction(variants[tag + 1], U64(0)))
             ELSE Err("InvalidInstructionData")

\* pinocchio: Instruction::unpack
pinocchio_unpack(bytes) == unpack(pinocchio_variants, bytes)

\* solana-nostd-entrypoint: Instruction::unpack
nostd_unpack(bytes) == unpack(nostd_variants, bytes)

\* a u64 whose eight bytes all differ: 0x0807060504030201
DistinctBytes == <<2 * Byte + 1, 4 * Byte + 3, 6 * Byte + 5, 8 * Byte + 7>>

\* the u64 fields the benchmark encodes
WireArgs == Targets \cup {DistinctBytes}

CheckedInstructions ==
    {ProgramInstruction(k, U64(0)) :
        k \in {"Ping", "Log", "CreateAccount", "Transfer", "SlotHashesGetEntryChecked",
               "SlotHashesGetHashChecked", "SlotHashesPositionChecked"}}
    \cup {ProgramInstruction("Account", e) : e \in WireArgs}

\* the instructions the runner issues to eisodos_pinocchio
UncheckedInstructions ==
    {ProgramInstruction(k, U64(0)) :
        k \in {"SlotHashesGetEntryUnchecked", "SlotHashesGetHashInterpolatedUnchecked"}}
    \cup {ProgramInstruction(k, t) :
            k \in {"SlotHashesPositionInterpolatedUnchecked", "SlotHashesPositionNaiveUnchecked"},
            t \in WireArgs}

\* no ProgramInstruction: the instruction data is handed to the program as it is
Raw == ProgramInstruction("Raw", U64(0))

\* raw instruction data: nothing at all, or a tag and a payload; the tags are
\* those of pinocchio, the one after the last, and 255; the payloads are the
\* first 0, 1, 7, 8 and 9 bytes of 01 02 03 04 05 06 07 08 09
RawInputs ==
    {<<>>} \cup {<<tag>> \o [j \in 1..n |-> j] :
                     tag \in 0..Len(pinocchio_variants) \cup {Byte - 1},
                     n \in {0, 1, 7, 8, 9}}

InitWire ==
    /\ SearchUnused /\ ProcUnused /\ GenUnused /\ PinUnused
    /\ \/ ix \in CheckedInstructions \cup UncheckedInstructions /\ input = <<>>
       \/ ix = Raw /\ input \in RawInputs
    /\ unpacked = WireIdle
    /\ entry = EntryIdle

\* the benchmark builds the instruction data of ix
call_instruction_data ==
    /\ ix # Raw /\ input = <<>>
    /\ input' = instruction_data(ix)
    /\ UNCHANGED <<ix, unpacked, entry, searchVars, procVars, gen, pin>>

\* the pinocchio program unpacks the instruction data
call_pinocchio_unpack ==
    /\ ix = Raw \/ input # <<>>
    /\ unpacked' = [unpacked EXCEPT !.pinocchio = [called |-> TRUE, ret |-> pinocchio_unpack(input)]]
    /\ UNCHANGED <<ix, input, entry, searchVars, procVars, gen, pin>>

\* the solana-nostd-entrypoint program unpacks the instruction data
call_nostd_unpack ==
    /\ ix = Raw \/ input # <<>>
    /\ unpacked' = [unpacked EXCEPT !.nostd = [called |-> TRUE, ret |-> nostd_unpack(input)]]
    /\ UNCHANGED <<ix, input, entry, searchVars, procVars, gen, pin>>

NextWire ==
    \/ call_instruction_data
    \/ call_pinocchio_unpack
    \/ call_nostd_unpack

SpecWire == InitWire /\ [][NextWire]_vars

\* ------------------------------------------------------------ entrypoints
\* the variants of solana-program's Instruction, in tag order: the arms of the
\* match of its process_instruction
solana_program_variants ==
    <<"Ping", "Log", "Account", "CreateAccount", "Transfer",
      "SlotHashesGetEntry", "SlotHashesGetHashInterpolated",
      "SlotHashesPositionInterpolated", "SlotHashesGetHashMidpoint",
      "SlotHashesPositionMidpoint">>

\* solana-program: Instruction::unpack
solana_program_unpack(bytes) == unpack(solana_program_variants, bytes)

\* Instruction::unpack of the program
program_unpack(program, bytes) ==
    IF program = "pinocchio" THEN pinocchio_unpack(bytes) ELSE solana_program_unpack(bytes)

\* the arms with CreateAccount and Transfer exchanged
dispatch_create_transfer_swapped(kind) ==
    CASE kind = "Ping" -> "process_ping"
      [] kind = "Log" -> "process_log"
      [] kind = "Account" -> "process_account"
      [] kind = "CreateAccount" -> "process_transfer"
      [] kind = "Transfer" -> "process_create_account"
      [] kind = "SlotHashesGetEntry" -> "process_slot_hashes_get_entry"
      [] kind = "SlotHashesGetHashInterpolated" -> "process_slot_hashes_get_hash_interpolated"
      [] kind = "SlotHashesPositionInterpolated" -> "process_slot_hashes_position_interpolated"
      [] kind = "SlotHashesGetHashMidpoint" -> "process_slot_hashes_get_hash_midpoint"
      [] kind = "SlotHashesPositionMidpoint" -> "process_slot_hashes_position_midpoint"
      [] kind = "SlotHashesGetEntryUnchecked" -> "process_slot_hashes_get_entry_unchecked"
      [] kind = "SlotHashesGetHashInterpolatedUnchecked" ->
             "process_slot_hashes_get_hash_interpolated_unchecked"
      [] kind = "SlotHashesPositionInterpolatedUnchecked" ->
             "process_slot_hashes_position_interpolated_unchecked"
      [] kind = "SlotHashesGetHashMidpointUnchecked" ->
             "process_slot_hashes_get_hash_midpoint_unchecked"
      [] OTHER -> "process_slot_hashes_position_midpoint_unchecked"

\* `match instruction { .. }`: the processor each arm calls
dispatch(kind) ==
    CASE kind = "Ping" -> "process_ping"
      [] kind = "Log" -> "process_log"
      [] kind = "Account" -> "process_account"
      [] kind = "CreateAccount" -> "process_create_account"
      [] kind = "Transfer" -> "process_transfer"
      [] kind = "SlotHashesGetEntry" -> "process_slot_hashes_get_entry"
      [] kind = "SlotHashesGetHashInterpolated" -> "process_slot_hashes_get_hash_interpolated"
      [] kind = "SlotHashesPositionInterpolated" -> "process_slot_hashes_position_interpolated"
      [] kind = "SlotHashesGetHashMidpoint" -> "process_slot_hashes_get_hash_midpoint"
      [] kind = "SlotHashesPositionMidpoint" -> "process_slot_hashes_position_midpoint"
      [] kind = "SlotHashesGetEntryUnchecked" -> "process_slot_hashes_get_entry_unchecked"
      [] kind = "SlotHashesGetHashInterpolatedUnchecked" ->
             "process_slot_hashes_get_hash_interpolated_unchecked"
      [] kind = "SlotHashesPositionInterpolatedUnchecked" ->
             "process_slot_hashes_position_interpolated_unchecked"
      [] kind = "SlotHashesGetHashMidpointUnchecked" ->
             "process_slot_hashes_get_hash_midpoint_unchecked"
      [] OTHER -> "process_slot_hashes_position_midpoint_unchecked"

\* pinocchio: process_slot_hashes_get_entry and the four search processors:
\* `accounts.get(0).ok_or(NotEnoughAccountKeys)?`, then from_account_info(..)?
\* succeeds or fails as the buffer validator does, the lookup's result is
\* dropped and Ok(()) returned
pinocchio_process_slot_hashes(accs) ==
    IF Len(accs) = 0 THEN {Err("NotEnoughAccountKeys")}
    ELSE {Ok(Unit), Err("BufferTooSmall"), Err("ArithmeticOverflow")}

\* pinocchio: the five process_slot_hashes_*_unchecked, which validate nothing
\* and have no failure path: they return Ok(()) or, on a read past the account
\* data, abort
pinocchio_process_slot_hashes_unchecked(accs) == {Ok(Unit), Panicked}

\* the outcomes the processor named fn of the program can have on accs, the
\* u64 of the instruction being field; process_ping and process_log of both
\* programs are `Ok(())`
processor_outcomes(program, fn, accs, field) ==
    IF fn \in {"process_ping", "process_log"}
    THEN {Outcome(Ok(Unit), <<>>)}
    ELSE IF fn = "process_account"
    THEN {Outcome(IF program = "pinocchio" THEN pinocchio_process_account(accs, field)
                  ELSE solana_program_process_account(accs, field), <<>>)}
    ELSE IF fn = "process_create_account"
    THEN {IF program = "pinocchio" THEN pinocchio_process_create_account(accs, cpi_ret)
          ELSE solana_program_process_create_account(accs, cpi_ret) : cpi_ret \in CpiResults}
    ELSE IF fn = "process_transfer"
    THEN {IF program = "pinocchio" THEN pinocchio_process_transfer(accs, cpi_ret)
          ELSE solana_program_process_transfer(accs, cpi_ret) : cpi_ret \in CpiResults}
    ELSE IF fn \in SearchProcessors \cup {"process_slot_hashes_get_entry"}
    THEN IF program = "pinocchio"
         THEN {Outcome(r, <<>>) : r \in pinocchio_process_slot_hashes(accs)}
         ELSE {Outcome(solana_program_slot_hashes(fn, accs, overflow_checks), <<>>) :
                  overflow_checks \in BOOLEAN}
    ELSE {Outcome(r, <<>>) : r \in pinocchio_process_slot_hashes_unchecked(accs)}

\* the accounts the entrypoints are handed: the sysvar with an empty table, the
\* sysvar with a length prefix of u64::MAX, and an account with another key;
\* the instruction data: the raw inputs and Account instructions whose
\* `expected` is a small number
InitEntry ==
    /\ SearchUnused /\ GenUnused /\ PinUnused
    /\ accounts \in SeqsUpTo(
          {AccountInfo(sysvar_slot_hashes_ID, create_mock_slot_hashes_data(<<>>)),
           AccountInfo(sysvar_slot_hashes_ID, to_le_bytes(U64_MAX)),
           AccountInfo(wrong_key, <<0, 0, 0, 0, 0>>)}, MaxAccounts)
    /\ expected = U64(0) /\ proc = ProcIdle
    /\ ix = Raw
    /\ input \in RawInputs \cup {<<2>> \o to_le_bytes(U64(n)) : n \in 0..MaxAccounts}
    /\ unpacked = WireIdle
    /\ entry = EntryIdle

\* process_instruction(_program_id, accounts, instruction_data) up to the `?`
\* of `Instruction::unpack(instruction_data)?`: an Err is returned at once
process_instruction_unpack ==
    /\ entry.pc = "idle"
    /\ \E program \in {"pinocchio", "solana-program"} :
          LET instruction == program_unpack(program, input)
          IN  entry' = [entry EXCEPT !.program = program,
                                     !.instruction = instruction,
                                     !.pc = IF instruction.ok THEN "match" ELSE "done",
                                     !.ret = IF instruction.ok THEN @ ELSE instruction]
    /\ UNCHANGED <<ix, input, unpacked, searchVars, procVars, gen, pin>>

\* the match of process_instruction: the arm's processor runs on accounts and
\* its value is the value of process_instruction
process_instruction_match ==
    /\ entry.pc = "match"
    /\ LET fn == dispatch(entry.instruction.v.kind)
       IN  \E o \in processor_outcomes(entry.program, fn, accounts, entry.instruction.v.arg) :
              entry' = [entry EXCEPT !.pc = "done",
                                     !.ran = Append(@, fn),
                                     !.cpis = @ \o o.cpis,
                                     !.processor_ret = o.ret,
                                     !.ret = o.ret]
    /\ UNCHANGED <<ix, input, unpacked, searchVars, procVars, gen, pin>>

NextEntry ==
    \/ process_instruction_unpack
    \/ process_instruction_match

SpecEntry == InitEntry /\ [][NextEntry]_vars

\* ------------------------------------------------- benchmark mock ledger
NUM_BENCH_SLOT_HASH_ENTRIES == 512
BENCH_SLOT_HASH_START_SLOT == 10000

\* the multiplier and the modulus (2^31 - 1) of simple_prng
simple_prng_A == 16807
simple_prng_M == 2147483647

\* simple_prng: (A.wrapping_mul(initial_state)) % M, the product taken at 64
\* bits; the seeds of the generator are below 512, so the wrapped product is
\* below 2^31
simple_prng(seed) ==
    LET initial_state == IF seed = 0 THEN 1 ELSE seed
    IN  ToNat(overflowing_mul(U64(initial_state), simple_prng_A).val) % simple_prng_M

DecrementStrategy == {"Strictly1", "Average1_05", "Average2"}

\* the decrement with Average2 drawing from 0, 1, 2
decrement_from_zero(strategy, random_val) ==
    IF strategy = "Strictly1" THEN 1
    ELSE IF strategy = "Average1_05" THEN (IF random_val % 20 = 0 THEN 2 ELSE 1)
    ELSE random_val % 3

\* `let decrement = match strategy { .. }`
decrement(strategy, random_val) ==
    IF strategy = "Strictly1" THEN 1
    ELSE IF strategy = "Average1_05" THEN (IF random_val % 20 = 0 THEN 2 ELSE 1)
    ELSE (IF random_val % 2 = 0 THEN 1 ELSE 3)

\* u64::saturating_sub
saturating_sub(a, b) == IF a >= b THEN a - b ELSE 0

\* one pass of `for i in 0..NUM_BENCH_SLOT_HASH_ENTRIES`, or the return after it
generate_mock_slot_hashes_data_iter(g) ==
    IF g.i >= NUM_BENCH_SLOT_HASH_ENTRIES THEN [g EXCEPT !.pc = "done"]
    ELSE
    LET hash_byte == g.i % Byte
        pushed == Append(g.entries, [slot |-> g.current_slot, hash_byte |-> hash_byte])
        random_val == simple_prng(g.i)
        next_slot == saturating_sub(g.current_slot, decrement(g.strategy, random_val))
    IN  IF next_slot = g.current_slot
        THEN [g EXCEPT !.entries = pushed, !.pc = "done", !.broke = TRUE]
        ELSE [g EXCEPT !.entries = pushed, !.current_slot = next_slot, !.i = g.i + 1]

InitGen ==
    /\ SearchUnused /\ ProcUnused /\ WireUnused /\ PinUnused
    /\ \E strategy \in DecrementStrategy : gen = [GenIdle EXCEPT !.strategy = strategy]

\* generate_mock_slot_hashes_data(strategy) is entered
generate_mock_slot_hashes_data_enter ==
    /\ gen.pc = "idle"
    /\ gen' = [gen EXCEPT !.pc = "loop", !.current_slot = BENCH_SLOT_HASH_START_SLOT]
    /\ UNCHANGED <<searchVars, procVars, wireVars, pin>>

generate_mock_slot_hashes_data_step ==
    /\ gen.pc = "loop"
    /\ gen' = generate_mock_slot_hashes_data_iter(gen)
    /\ UNCHANGED <<searchVars, procVars, wireVars, pin>>

NextGen ==
    \/ generate_mock_slot_hashes_data_enter
    \/ generate_mock_slot_hashes_data_step

SpecGen == InitGen /\ [][NextGen]_vars

\* --------------------------------------------------- pinocchio SlotHashes
\* SlotHashes::new_unchecked(data, entry_count): the buffer and the trusted count
new_unchecked(d, entry_count) == [data |-> d, len |-> entry_count]

\* entry i (from 0) of the table: 8 + 40 * i, the slot little-endian, then the hash
entry_at(sh, i) ==
    LET off == LEN_PREFIX_SIZE + i * SLOT_HASH_ENTRY_SIZE
    IN  [slot |-> from_le_bytes(SubSeq(sh.data, off + 1, off + 8)),
         hash |-> SubSeq(sh.data, off + 9, off + SLOT_HASH_ENTRY_SIZE)]

\* get_entry with `index + 1 >= len` as its range check
get_entry_short(sh, index) == IF index + 1 >= sh.len THEN None ELSE Some(entry_at(sh, index))

\* SlotHashes::get_entry: None when index >= entry_count, else the decoded entry
get_entry(sh, index) == IF index >= sh.len THEN None ELSE Some(entry_at(sh, index))

RECURSIVE position_midpoint_loop(_, _, _, _)
\* the descending midpoint search on [low, high)
position_midpoint_loop(sh, t, low, high) ==
    IF low >= high THEN None
    ELSE LET mid == low + (high - low) \div 2
             ord == cmp(entry_at(sh, mid).slot, t)
         IN  IF ord = "Equal" THEN Some(mid)
             ELSE IF ord = "Less" THEN position_midpoint_loop(sh, t, low, mid)
             ELSE position_midpoint_loop(sh, t, mid + 1, high)

\* SlotHashes::position_midpoint
position_midpoint(sh, t) == position_midpoint_loop(sh, t, 0, sh.len)

\* SlotHashes::get_hash_midpoint
get_hash_midpoint(sh, t) ==
    LET pos == position_midpoint(sh, t)
    IN  IF pos.some THEN Some(entry_at(sh, pos.v).hash) ELSE None

\* a * k for a small k as five limbs, nothing dropped
mul_wide(a, k) ==
    LET p1 == a[1] * k
        p2 == a[2] * k + p1 \div Limb
        p3 == a[3] * k + p2 \div Limb
        p4 == a[4] * k + p3 \div Limb
    IN  <<p1 % Limb, p2 % Limb, p3 % Limb, p4 % Limb, p4 \div Limb>>

\* x <= y on five limbs
le_wide(x, y) ==
    \/ x = y
    \/ \E k \in 1..5 : x[k] < y[k] /\ \A j \in (k + 1)..5 : x[j] = y[j]

\* the proportional estimate floor((first - t) * span / (first - last)), for
\* first >= t >= last and first > last, the product taken without overflow
estimate(first, last, t, span) ==
    LET num == mul_wide(sub(first, t), span)
        den == sub(first, last)
        fits == {q \in 0..span : le_wide(mul_wide(den, q), num)}
    IN  CHOOSE q \in fits : \A r \in fits : r <= q

\* position_iter with `low = mid` after a probe above the target
position_iter_low_mid(p, sh, t) ==
    IF p.low >= p.high THEN [p EXCEPT !.pc = "done", !.ret = None]
    ELSE
    LET first == entry_at(sh, p.low).slot
        last == entry_at(sh, p.high - 1).slot
    IN  IF cmp(t, first) = "Greater" \/ cmp(t, last) = "Less"
        THEN [p EXCEPT !.pc = "done", !.ret = None]
        ELSE
        LET mid == IF first = last THEN p.low + (p.high - p.low) \div 2
                   ELSE p.low + estimate(first, last, t, p.high - 1 - p.low)
            ord == cmp(entry_at(sh, mid).slot, t)
            probed == [p EXCEPT !.probes = Append(p.probes, mid)]
        IN  IF ord = "Equal"
            THEN [probed EXCEPT !.pc = "done",
                                !.ret = IF p.fn = "get_hash" THEN Some(entry_at(sh, mid).hash)
                                        ELSE Some(mid)]
            ELSE IF ord = "Less" THEN [probed EXCEPT !.high = mid]
            ELSE [probed EXCEPT !.low = mid]

\* one pass of the interpolation search on [low, high), or its final None
position_iter(p, sh, t) ==
    IF p.low >= p.high THEN [p EXCEPT !.pc = "done", !.ret = None]
    ELSE
    LET first == entry_at(sh, p.low).slot
        last == entry_at(sh, p.high - 1).slot
    IN  IF cmp(t, first) = "Greater" \/ cmp(t, last) = "Less"
        THEN [p EXCEPT !.pc = "done", !.ret = None]
        ELSE
        LET mid == IF first = last THEN p.low + (p.high - p.low) \div 2
                   ELSE p.low + estimate(first, last, t, p.high - 1 - p.low)
            ord == cmp(entry_at(sh, mid).slot, t)
            probed == [p EXCEPT !.probes = Append(p.probes, mid)]
        IN  IF ord = "Equal"
            THEN [probed EXCEPT !.pc = "done",
                                !.ret = IF p.fn = "get_hash" THEN Some(entry_at(sh, mid).hash)
                                        ELSE Some(mid)]
            ELSE IF ord = "Less" THEN [probed EXCEPT !.high = mid]
            ELSE [probed EXCEPT !.low = mid + 1]

\* the SlotHashes of the tests: the buffer with the count of the mock entries
slot_hashes == new_unchecked(data, Len(entries))

\* the slots of the SlotHashes tests: those of the search tests and one just
\* below the largest, for tables whose slots are far from evenly spread
PinSlots == Slots \cup {sub(U64_MAX, U64(1))}

\* buffers that hold every entry their prefix declares
InitPin ==
    /\ InitSearchOver(PinSlots, PinSlots \cup {U64(0)}) /\ ProcUnused /\ WireUnused /\ GenUnused
    /\ declared = U64(Len(entries)) /\ Len(data) >= TableLen(Len(entries))
    /\ pin = PinIdle

\* slot_hashes.get_entry(index)
call_get_entry ==
    /\ pin.pc = "idle"
    /\ \E index \in 0..(MaxEntries + 1) :
          pin' = [pin EXCEPT !.pc = "done", !.fn = "get_entry", !.index = index,
                             !.ret = get_entry(slot_hashes, index)]
    /\ UNCHANGED <<searchVars, procVars, wireVars, gen>>

\* slot_hashes.position_midpoint(target_slot), slot_hashes.get_hash_midpoint(target_slot)
call_midpoint ==
    /\ pin.pc = "idle"
    /\ \/ pin' = [pin EXCEPT !.pc = "done", !.fn = "position_midpoint",
                             !.ret = position_midpoint(slot_hashes, target_slot)]
       \/ pin' = [pin EXCEPT !.pc = "done", !.fn = "get_hash_midpoint",
                             !.ret = get_hash_midpoint(slot_hashes, target_slot)]
    /\ UNCHANGED <<searchVars, procVars, wireVars, gen>>

\* slot_hashes.position(target_slot) or slot_hashes.get_hash(target_slot) is entered
position_enter ==
    /\ pin.pc = "idle"
    /\ \E fn \in {"position", "get_hash"} :
          pin' = [pin EXCEPT !.pc = "loop", !.fn = fn, !.low = 0, !.high = slot_hashes.len]
    /\ UNCHANGED <<searchVars, procVars, wireVars, gen>>

position_step ==
    /\ pin.pc = "loop"
    /\ pin' = position_iter(pin, slot_hashes, target_slot)
    /\ UNCHANGED <<searchVars, procVars, wireVars, gen>>

NextPin ==
    \/ call_get_entry
    \/ call_midpoint
    \/ position_enter
    \/ position_step

SpecPin == InitPin /\ [][NextPin]_vars

\* ------------------------------------------------------------------ claims
NumEntries == Len(entries)

\* a Result that is Err(e) / Ok(x)
IsErr(r, e) == ~r.ok /\ r.v = e
IsOk(r, x) == r.ok /\ r.v = x

\* [u64 LE count N][N entries] with strictly descending slots and length >= 8 + 40*N
ValidBuffer ==
    /\ StrictlyDescending(entries)
    /\ declared = U64(NumEntries)
    /\ Len(data) >= TableLen(NumEntries)

\* the indices (from 0) of the entries that store slot t
IndicesOf(t) == {i \in 0..(NumEntries - 1) : entries[i + 1].slot = t}

Stored(t) == IndicesOf(t) # {}

MbsReturned == mbs.pc = "done"

PshSearched == psh.called /\ psh.op.kind \in {"GetHash", "GetPosition"}

\* C1: on a valid strictly-descending buffer, looking up the slot of entry i
\* makes manual_binary_search return Ok(i) and process_slot_hashes_bytes with
\* GetPosition return Ok(Some(i)).
C1_RoundTripPosition ==
    ValidBuffer =>
        \A i \in IndicesOf(target_slot) :
            /\ mbs.pc # "panic"
            /\ MbsReturned => mbs.ret = Ok(U64(i))
            /\ (psh.called /\ psh.op.kind = "GetPosition") => IsOk(psh.ret, Some(U64(i)))

C1_Witness ==
    /\ ValidBuffer /\ NumEntries = MaxEntries
    /\ IndicesOf(target_slot) = {NumEntries - 1}
    /\ MbsReturned /\ mbs.ret = Ok(U64(NumEntries - 1))
    /\ psh.called /\ psh.op.kind = "GetPosition" /\ IsOk(psh.ret, Some(U64(NumEntries - 1)))

\* C2: on a valid strictly-descending buffer, a target that equals no stored
\* slot makes manual_binary_search return Err(_) and process_slot_hashes_bytes
\* (GetHash or GetPosition) return Ok(None).
C2_AbsentNotFound ==
    (ValidBuffer /\ ~Stored(target_slot)) =>
        /\ mbs.pc # "panic"
        /\ MbsReturned => ~mbs.ret.ok
        /\ PshSearched => IsOk(psh.ret, None)

\* an absent target strictly between two neighbours, searched by both
C2_Witness ==
    /\ ValidBuffer /\ ~Stored(target_slot)
    /\ \E i \in 1..(NumEntries - 1) :
          /\ cmp(entries[i].slot, target_slot) = "Greater"
          /\ cmp(target_slot, entries[i + 1].slot) = "Greater"
    /\ MbsReturned /\ ~mbs.ret.ok
    /\ PshSearched /\ IsOk(psh.ret, None)

\* C3: on a valid strictly-descending buffer the two searches agree:
\* manual_binary_search returns Ok(i) exactly when process_slot_hashes_bytes
\* returns Ok(Some(i)), and Err(_) exactly when it returns Ok(None).
C3_SearchesAgree ==
    (ValidBuffer /\ MbsReturned /\ PshSearched) =>
        /\ psh.ret.ok
        /\ mbs.ret.ok <=> IsOk(psh.ret, Some(mbs.ret.v))
        /\ ~mbs.ret.ok <=> IsOk(psh.ret, None)

C3_Witness ==
    /\ ValidBuffer /\ NumEntries >= 2
    /\ MbsReturned /\ mbs.ret = Ok(U64(1))
    /\ PshSearched /\ IsOk(psh.ret, Some(U64(1)))

\* the prefix declares more entries than the buffer holds: length < 8 + 40*N
Truncated ==
    /\ Len(data) >= SDK_LEN_PREFIX_SIZE
    /\ ~\E n \in 0..(MaxEntries + 1) : declared = U64(n) /\ TableLen(n) <= Len(data)

\* 8 + 40 * declared does not fit a usize
DeclaredOverflows == cmp(declared, MaxFitCount) = "Greater"

\* C4: on a buffer whose prefix declares N entries but whose length is below
\* 8 + 40*N, manual_binary_search never returns Ok(index).
C4_TruncatedNeverFound ==
    Truncated => ~(MbsReturned /\ mbs.ret.ok)

\* C5 as stated: a buffer shorter than 8 bytes, or shorter than
\* 8 + 40*entry_count, makes process_slot_hashes_bytes return
\* Err(AccountDataTooSmall) for every operation, with no entry read.
C5_TooSmallRejected ==
    (psh.called /\ (Len(data) < LEN_PREFIX_SIZE \/ Truncated)) =>
        /\ IsErr(psh.ret, "AccountDataTooSmall")
        /\ psh.reads = <<>>

\* C5 amended: a buffer shorter than 8 bytes, or shorter than
\* 8 + 40*entry_count, is rejected with no entry read: with
\* Err(ArithmeticOverflow) when 8 + 40*entry_count does not fit a usize, with
\* Err(AccountDataTooSmall) otherwise.
C5_TooSmallOrOverflowRejected ==
    (psh.called /\ (Len(data) < LEN_PREFIX_SIZE \/ Truncated)) =>
        /\ IsErr(psh.ret, IF Len(data) >= LEN_PREFIX_SIZE /\ DeclaredOverflows
                           THEN "ArithmeticOverflow"
                           ELSE "AccountDataTooSmall")
        /\ psh.reads = <<>>

\* one entry short of the declared count, searched for a slot that is present
C5_Witness ==
    /\ psh.called /\ psh.op.kind = "GetPosition" /\ Stored(target_slot)
    /\ Truncated /\ declared = U64(NumEntries + 1) /\ NumEntries >= 1
    /\ IsErr(psh.ret, "AccountDataTooSmall")

\* the well-formed mock tables: strictly descending, exact length
WellFormedTables ==
    {es \in {MockEntries(q) : q \in SeqsUpTo(Slots, MaxEntries)} : StrictlyDescending(es)}

Contains(es, t) == \E i \in 1..Len(es) : es[i].slot = t

\* process_slot_hashes_bytes tells a too-small buffer (a typed error) from an
\* absent target (Ok(None))
PshDistinguishes ==
    (psh.called /\ (Len(data) < LEN_PREFIX_SIZE \/ Truncated)) =>
        /\ ~psh.ret.ok /\ psh.ret.v \in {"AccountDataTooSmall", "ArithmeticOverflow"}
        /\ \A es \in WellFormedTables :
              ~Contains(es, target_slot) =>
                 LET r == process_slot_hashes_bytes(create_mock_slot_hashes_data(es),
                                                    GetPosition(target_slot)).ret
                 IN  IsOk(r, None)

\* C6 as stated: a too-small buffer is told from an absent target on every
\* checked path; manual_binary_search's result for a too-small buffer differs
\* from its result for every well-formed buffer that lacks the target.
C6_FailureDistinctFromAbsent ==
    /\ PshDistinguishes
    /\ (Len(data) < SDK_LEN_PREFIX_SIZE /\ MbsReturned) =>
          \A es \in WellFormedTables :
             ~Contains(es, target_slot) =>
                manual_binary_search(create_mock_slot_hashes_data(es), target_slot).ret
                   # mbs.ret

\* C6 amended: process_slot_hashes_bytes tells a too-small buffer (an error)
\* from an absent target (Ok(None)).  manual_binary_search returns Err(0) for a
\* buffer shorter than the prefix and Err(insertion point) for an absent
\* target, so the two differ exactly when the insertion point is not 0, that is
\* when the table is non-empty and its first slot is above the target.
C6_DistinctUnlessInsertionZero ==
    /\ PshDistinguishes
    /\ (Len(data) < SDK_LEN_PREFIX_SIZE /\ MbsReturned) =>
          /\ mbs.ret = Err(U64(0))
          /\ \A es \in WellFormedTables :
                ~Contains(es, target_slot) =>
                   LET r == manual_binary_search(create_mock_slot_hashes_data(es),
                                                 target_slot)
                   IN  /\ r.pc = "done" /\ ~r.ret.ok
                       /\ r.ret # mbs.ret
                            <=> (es # <<>> /\ cmp(es[1].slot, target_slot) = "Greater")

\* the 5-byte buffer searched by both, for a target some well-formed table puts first
C6_Witness ==
    /\ Len(data) < SDK_LEN_PREFIX_SIZE /\ MbsReturned /\ mbs.ret = Err(U64(0))
    /\ psh.called /\ IsErr(psh.ret, "AccountDataTooSmall")
    /\ \E es \in WellFormedTables :
          ~Contains(es, target_slot) /\ es # <<>> /\ cmp(es[1].slot, target_slot) = "Less"

\* C7: process_slot_hashes_bytes returns Err(ArithmeticOverflow) exactly when
\* the prefix is readable and 8 + 40*entry_count does not fit a usize, whatever
\* the operation; then it returns neither AccountDataTooSmall nor a result.
C7_OverflowChecked ==
    psh.called =>
        (IsErr(psh.ret, "ArithmeticOverflow")
            <=> (Len(data) >= LEN_PREFIX_SIZE /\ DeclaredOverflows))

\* the smallest overflowing count, looked up with GetHash
C7_Witness ==
    /\ psh.called /\ psh.op.kind = "GetHash"
    /\ declared = overflowing_add(MaxFitCount, U64(1)).val
    /\ IsErr(psh.ret, "ArithmeticOverflow")

\* C8 as stated: on a valid buffer GetHash for entry i's slot yields the
\* 32-byte hash stored in entry i, and absence when no entry has the slot.
C8_GetHashYieldsHash ==
    (ValidBuffer /\ psh.called /\ psh.op.kind = "GetHash") =>
        /\ \A i \in IndicesOf(target_slot) : IsOk(psh.ret, Some(entries[i + 1].hash))
        /\ ~Stored(target_slot) => IsOk(psh.ret, None)

\* C8 amended: on a valid buffer GetHash for entry i's slot yields Ok(Some(i)),
\* the index of the entry that stores the hash (the hash itself is not
\* returned), and Ok(None) when no entry has the slot.
C8_GetHashYieldsIndex ==
    (ValidBuffer /\ psh.called /\ psh.op.kind = "GetHash") =>
        /\ \A i \in IndicesOf(target_slot) :
              /\ IsOk(psh.ret, Some(U64(i)))
              /\ SubSeq(data, TableLen(i) + 9, TableLen(i + 1)) = entries[i + 1].hash
        /\ ~Stored(target_slot) => IsOk(psh.ret, None)

C8_Witness ==
    /\ ValidBuffer /\ NumEntries = MaxEntries
    /\ psh.called /\ psh.op.kind = "GetHash"
    /\ IndicesOf(target_slot) = {1} /\ IsOk(psh.ret, Some(U64(1)))

\* C9: with a readable prefix of 0 every search reports not found without
\* reading an entry: manual_binary_search returns Err(0) with no probe, and
\* process_slot_hashes_bytes returns Ok(None) for IsEmpty, GetHash, GetPosition.
C9_EmptyTable ==
    (Len(data) >= LEN_PREFIX_SIZE /\ declared = U64(0)) =>
        /\ mbs.pc # "panic"
        /\ MbsReturned => (mbs.ret = Err(U64(0)) /\ mbs.probes = <<>>)
        /\ psh.called => (IsOk(psh.ret, None) /\ psh.reads = <<>>)

\* a zero prefix followed by entry bytes that hold the target
C9_Witness ==
    /\ declared = U64(0) /\ NumEntries >= 1 /\ Len(data) = TableLen(NumEntries)
    /\ Stored(target_slot)
    /\ MbsReturned /\ mbs.ret = Err(U64(0))
    /\ psh.called /\ psh.op.kind = "GetHash" /\ IsOk(psh.ret, None)

\* number of entries whose slot is above t
CountAbove(t) == Cardinality({i \in 1..NumEntries : cmp(entries[i].slot, t) = "Greater"})

\* C10: on a valid buffer a target that is not stored makes
\* manual_binary_search return Err(p), p the number of entries with a greater
\* slot: the entries before p are above the target, those from p on below it.
C10_InsertionPoint ==
    (ValidBuffer /\ ~Stored(target_slot) /\ MbsReturned) =>
        LET p == CountAbove(target_slot)
        IN  /\ mbs.ret = Err(U64(p))
            /\ \A i \in 1..NumEntries :
                  /\ i <= p => cmp(entries[i].slot, target_slot) = "Greater"
                  /\ i > p => cmp(entries[i].slot, target_slot) = "Less"

C10_Witness ==
    /\ ValidBuffer /\ ~Stored(target_slot) /\ NumEntries = MaxEntries
    /\ CountAbove(target_slot) = 1
    /\ MbsReturned /\ mbs.ret = Err(U64(1))

\* index i (from 0) as a word is below / not below the word w
IndexBelow(i, w) == cmp(U64(i), w) = "Less"

\* C18: on a valid strictly-descending buffer, at every head of the loop of
\* manual_binary_search 0 <= low <= high <= N, every entry at an index below
\* low has a slot above the target, every entry at an index from high on has a
\* slot below the target, and the mid probed next satisfies low <= mid < high.
C18_LoopInvariant ==
    (ValidBuffer /\ mbs.pc = "loop") =>
        /\ cmp(mbs.low, mbs.high) # "Greater"
        /\ cmp(mbs.high, U64(NumEntries)) # "Greater"
        /\ \A i \in 0..(NumEntries - 1) :
              /\ IndexBelow(i, mbs.low) => cmp(entries[i + 1].slot, target_slot) = "Greater"
              /\ ~IndexBelow(i, mbs.high) => cmp(entries[i + 1].slot, target_slot) = "Less"
        /\ \A i \in 1..Len(mbs.probes) : IndexBelow(ToNat(mbs.probes[i]), U64(NumEntries))
        /\ loop_cond(mbs.low, mbs.high) =>
              LET mid == midpoint(mbs.low, mbs.high)
              IN  /\ cmp(mbs.low, mid) # "Greater"
                  /\ cmp(mid, mbs.high) = "Less"

\* a loop head after a probe that raised low, with a range still to search
C18_Witness ==
    /\ ValidBuffer /\ NumEntries = MaxEntries
    /\ mbs.pc = "loop" /\ Len(mbs.probes) >= 1
    /\ cmp(mbs.low, U64(0)) = "Greater"
    /\ loop_cond(mbs.low, mbs.high)

RECURSIVE BitLenNat(_)
\* floor(log2(n)) + 1 for n >= 1, and 0 for n = 0
BitLenNat(n) == IF n = 0 THEN 0 ELSE 1 + BitLenNat(n \div 2)

\* floor(log2(w)) + 1 of a word w >= 1, and 0 for the zero word
BitLen(w) ==
    LET top == {k \in 1..4 : w[k] # 0}
    IN  IF top = {} THEN 0
        ELSE LET k == CHOOSE x \in top : \A y \in top : y <= x
             IN  16 * (k - 1) + BitLenNat(w[k])

\* high - low of a position of manual_binary_search
Width(m) == sub(m.high, m.low)

\* from a loop head, an iteration that stays in the loop has probed once more
\* and has a strictly smaller high - low, whether the build traps or wraps
IterationShrinks ==
    mbs.pc = "loop" =>
        \A overflow_checks \in BOOLEAN :
            LET m2 == manual_binary_search_iter(mbs, data, target_slot, overflow_checks)
            IN  m2.pc = "loop" =>
                    /\ Len(m2.probes) = Len(mbs.probes) + 1
                    /\ cmp(Width(m2), Width(mbs)) = "Less"

\* at most floor(log2(N)) + 1 probes, N the declared entry count
ProbesBounded == Len(mbs.probes) <= BitLen(declared)

ProbeInBounds(mid) ==
    LET product == overflowing_mul(mid, SDK_ENTRY_SIZE)
        entry_offset == overflowing_add(U64(SDK_LEN_PREFIX_SIZE), product.val)
        slot_end == overflowing_add(entry_offset.val, U64(8))
    IN  /\ ~product.ovf /\ ~entry_offset.ovf /\ ~slot_end.ovf
        /\ cmp(slot_end.val, U64(Len(data))) # "Greater"

\* C20: for every buffer and every 64-bit entry_count prefix,
\* manual_binary_search computes each probe offset 8 + mid * 40 and its end
\* offset + 8 without exceeding the machine word, never panics, and reads a
\* slot only when offset + 8 <= buffer length.
C20_NoOverflowNoOutOfBounds ==
    /\ mbs.pc # "panic"
    /\ (mbs.pc = "loop" /\ loop_cond(mbs.low, mbs.high)) =>
          LET mid == midpoint(mbs.low, mbs.high)
              product == overflowing_mul(mid, SDK_ENTRY_SIZE)
              entry_offset == overflowing_add(U64(SDK_LEN_PREFIX_SIZE), product.val)
          IN  /\ ~product.ovf /\ ~entry_offset.ovf
              /\ ~overflowing_add(entry_offset.val, U64(8)).ovf
    /\ \A i \in 1..Len(mbs.probes) : ProbeInBounds(mbs.probes[i])

\* C13: process_account returns Ok(()) exactly when the number of accounts
\* equals `expected` and Err(InvalidArgument) otherwise, and the three
\* programs (pinocchio, solana-nostd-entrypoint, solana-program) agree.
C13_ProcessAccountCountsAccounts ==
    /\ (proc.called /\ proc.fn = "process_account") =>
          /\ expected = U64(Len(accounts)) => IsOk(proc.ret, Unit)
          /\ expected # U64(Len(accounts)) => IsErr(proc.ret, "InvalidArgument")
    /\ pinocchio_process_account(accounts, expected) = nostd_process_account(accounts, expected)
    /\ nostd_process_account(accounts, expected) = solana_program_process_account(accounts, expected)

\* expected == 0 with a non-empty slice is refused
C13_Witness ==
    /\ proc.called /\ proc.fn = "process_account" /\ proc.program = "solana-nostd-entrypoint"
    /\ expected = U64(0) /\ Len(accounts) = MaxAccounts
    /\ IsErr(proc.ret, "InvalidArgument")

\* the slot-hash processor of solana-program was called on accounts
SlotHashesProcessorCalled ==
    proc.called /\ proc.program = "solana-program" /\ proc.fn # "process_account"

\* C14: every slot-hash processor of solana-program returns
\* NotEnoughAccountKeys on an empty account slice and IncorrectProgramId when
\* the first key is not the SlotHashes id, whatever the data; with the sysvar
\* key the four search processors return Ok(()).
C14_OutcomeFromAccountsAndKey ==
    SlotHashesProcessorCalled =>
        /\ accounts = <<>> => IsErr(proc.ret, "NotEnoughAccountKeys")
        /\ (accounts # <<>> /\ accounts[1].key # sysvar_slot_hashes_ID) =>
              IsErr(proc.ret, "IncorrectProgramId")
        /\ (accounts # <<>> /\ accounts[1].key = sysvar_slot_hashes_ID
              /\ proc.fn \in SearchProcessors) => IsOk(proc.ret, Unit)

\* the operation of the programs a checked ProgramInstruction stands for
Corresponding(kind) ==
    CASE kind = "SlotHashesGetEntryChecked" -> "SlotHashesGetEntry"
      [] kind = "SlotHashesGetHashChecked" -> "SlotHashesGetHashInterpolated"
      [] kind = "SlotHashesPositionChecked" -> "SlotHashesPositionInterpolated"
      [] OTHER -> kind

\* the unpack result u is Ok of the variant named kind with u64 field arg
UnpackedAs(u, kind, arg) == u.called /\ u.ret.ok /\ u.ret.v = Instruction(kind, arg)

\* C15: the instruction data the benchmark builds for Ping, Log,
\* Account{expected}, CreateAccount, Transfer and the three checked SlotHashes
\* instructions is accepted by Instruction::unpack of pinocchio and of
\* solana-nostd-entrypoint and decodes to the corresponding operation, with
\* `expected` preserved.
C15_CheckedRoundTrip ==
    ix \in CheckedInstructions =>
        /\ unpacked.pinocchio.called => UnpackedAs(unpacked.pinocchio, Corresponding(ix.kind), ix.arg)
        /\ unpacked.nostd.called => UnpackedAs(unpacked.nostd, Corresponding(ix.kind), ix.arg)
        /\ input # <<>> => (Head(input) \in 0..7 /\ Len(input) = IF ix.kind = "Account" THEN 9 ELSE 1)

\* Account{expected: 0x0807060504030201} unpacked by both programs
C15_Witness ==
    /\ ix = ProgramInstruction("Account", DistinctBytes)
    /\ input = <<2, 1, 2, 3, 4, 5, 6, 7, 8>>
    /\ UnpackedAs(unpacked.pinocchio, "Account", DistinctBytes)
    /\ UnpackedAs(unpacked.nostd, "Account", DistinctBytes)

\* C16: for each unchecked instruction the runner issues to eisodos_pinocchio
\* the instruction data the benchmark builds is accepted by the pinocchio
\* Instruction::unpack and decodes to the unchecked operation of the same name.
C16_UncheckedMatchesPinocchio ==
    (ix \in UncheckedInstructions /\ unpacked.pinocchio.called) =>
        /\ unpacked.pinocchio.ret.ok
        /\ unpacked.pinocchio.ret.v.kind = ix.kind

\* C17: for each DecrementStrategy generate_mock_slot_hashes_data returns
\* exactly 512 entries, the first with slot 10000, each next slot 1, 2 or 3
\* below the one before it; the saturation exit never fires and the count
\* never exceeds 512.
C17_MockLedgerInvariants ==
    /\ Len(gen.entries) <= 512
    /\ ~gen.broke
    /\ \A k \in 1..(Len(gen.entries) - 1) :
          gen.entries[k].slot - gen.entries[k + 1].slot \in {1, 2, 3}
    /\ gen.pc = "done" => (Len(gen.entries) = 512 /\ gen.entries[1].slot = 10000)

\* the Average2 ledger, returned, with steps of 1 and of 3 in it
C17_Witness ==
    /\ gen.pc = "done" /\ gen.strategy = "Average2" /\ Len(gen.entries) = 512
    /\ \E j, k \in 1..511 :
          /\ gen.entries[j].slot - gen.entries[j + 1].slot = 1
          /\ gen.entries[k].slot - gen.entries[k + 1].slot = 3

\* the same Option: both None, or both Some of the same value
SameOption(x, y) == x.some = y.some /\ (x.some => x.v = y.v)

\* C11: on every valid strictly-descending table and for every target the
\* interpolated position / get_hash end with the result of position_midpoint /
\* get_hash_midpoint, and they end: every pass that stays in the loop probes
\* an index inside [low, high) and shrinks the range, so a table of N entries
\* is probed at most N times.
C11_InterpolationAgreesWithMidpoint ==
    StrictlyDescending(entries) =>
        /\ (pin.pc = "done" /\ pin.fn = "position") =>
              SameOption(pin.ret, position_midpoint(slot_hashes, target_slot))
        /\ (pin.pc = "done" /\ pin.fn = "get_hash") =>
              SameOption(pin.ret, get_hash_midpoint(slot_hashes, target_slot))
        /\ Len(pin.probes) <= NumEntries
        /\ pin.pc = "loop" =>
              LET p2 == position_iter(pin, slot_hashes, target_slot)
              IN  /\ p2.pc = "loop" => p2.high - p2.low < pin.high - pin.low
                  /\ \A k \in 1..Len(p2.probes) : p2.probes[k] \in 0..(NumEntries - 1)

\* a table whose last slot is far below the others: the estimate for the
\* second slot lands on the first entry, the next pass finds it
C11_Witness ==
    /\ StrictlyDescending(entries) /\ NumEntries = MaxEntries
    /\ entries[1].slot = U64_MAX /\ entries[NumEntries].slot = U64(1)
    /\ pin.pc = "done" /\ pin.fn = "position" /\ Len(pin.probes) >= 2
    /\ SameOption(pin.ret, Some(1))

\* C12: on a valid buffer with entry_count N, get_entry(index) returns the
\* decoded (slot, hash) of entry index when index < N and None when
\* index >= N; on the empty table get_entry(0) is None.
C12_GetEntryByIndex ==
    (pin.pc = "done" /\ pin.fn = "get_entry") =>
        /\ pin.index < NumEntries => SameOption(pin.ret, Some(entries[pin.index + 1]))
        /\ pin.index >= NumEntries => SameOption(pin.ret, None)

\* the last entry of a full table read back, slot and hash
C12_Witness ==
    /\ NumEntries = MaxEntries
    /\ pin.pc = "done" /\ pin.fn = "get_entry" /\ pin.index = NumEntries - 1
    /\ SameOption(pin.ret, Some([slot |-> entries[NumEntries].slot, hash |-> HashFill(NumEntries)]))

\* C21: on a buffer shorter than the 8-byte length prefix manual_binary_search
\* returns Err(0) for every target without reading the buffer, and when the
\* slot bytes of a probe would lie past the end of the buffer it returns
\* Err(low) with the current lower bound.
C21_ShortBufferAndProbePastEnd ==
    /\ (Len(data) < SDK_LEN_PREFIX_SIZE /\ mbs.pc # "idle") =>
          /\ MbsReturned /\ mbs.ret = Err(U64(0))
          /\ mbs.probes = <<>>
    /\ (mbs.pc = "loop" /\ loop_cond(mbs.low, mbs.high)
          /\ ~ProbeInBounds(midpoint(mbs.low, mbs.high))) =>
          \A overflow_checks \in BOOLEAN :
              LET m2 == manual_binary_search_iter(mbs, data, target_slot, overflow_checks)
              IN  /\ m2.pc = "done" /\ m2.ret = Err(mbs.low)
                  /\ m2.probes = mbs.probes


\* the outcome of one program's unpack on the instruction data `input`, stated
\* from the bytes alone: `last` is the program's highest tag
AcceptsExactly(u, last) ==
    u.called =>
        IF Len(input) = 1 /\ input[1] \in ({0, 1} \cup 3..last)
        THEN u.ret.ok /\ u.ret.v.kind # "Account"
        ELSE IF Len(input) = 9 /\ input[1] = 2
        THEN /\ u.ret.ok /\ u.ret.v.kind = "Account"
             /\ to_le_bytes(u.ret.v.arg) = Tail(input)
        ELSE IsErr(u.ret, "InvalidInstructionData")

SameResult(a, b) == a.ok = b.ok /\ (a.ok => b.ok /\ a.v = b.v) /\ (~a.ok => ~b.ok /\ a.v = b.v)

\* C22: Instruction::unpack accepts exactly a single byte with tag 0, 1, 3, 4
\* or 5..14 (pinocchio) / 5..7 (nostd), or tag 2 followed by exactly 8 bytes
\* decoded as the little-endian u64 `expected`; empty input, unknown tags,
\* trailing bytes after a payload-free tag and tag 2 with another payload
\* length are rejected with InvalidInstructionData; on tags 0..7 the two
\* programs decode identically.
C22_UnpackAcceptsExactly ==
    /\ AcceptsExactly(unpacked.pinocchio, 14)
    /\ AcceptsExactly(unpacked.nostd, 7)
    /\ (unpacked.pinocchio.called /\ unpacked.nostd.called
          /\ input # <<>> /\ input[1] \in 0..7) =>
          SameResult(unpacked.pinocchio.ret, unpacked.nostd.ret)

\* both programs have decoded tag 2 followed by an 8-byte payload
C22_Witness ==
    /\ ix = Raw /\ Len(input) = 9 /\ input[1] = 2
    /\ unpacked.pinocchio.called /\ unpacked.nostd.called
    /\ unpacked.pinocchio.ret.ok /\ unpacked.nostd.ret.ok
    /\ to_le_bytes(unpacked.nostd.ret.v.arg) = Tail(input)


\* process_create_account or process_transfer of pinocchio or of
\* solana-nostd-entrypoint has been called
SlicePatternProcessorCalled ==
    /\ proc.called
    /\ proc.program \in {"pinocchio", "solana-nostd-entrypoint"}
    /\ proc.fn \in {"process_create_account", "process_transfer"}

\* C24: in the pinocchio and nostd programs process_create_account and
\* process_transfer return Err(InvalidArgument) without a CPI when called with
\* fewer than two accounts; with two or more they perform exactly one CPI on
\* the first two accounts (create: 500_000_000 lamports, 10 bytes, owner the
\* program id; transfer: 1_000_000_000 lamports), whatever the rest is.
C24_CreateAndTransferTakeFirstTwo ==
    SlicePatternProcessorCalled =>
        IF Len(accounts) < 2
        THEN IsErr(proc.ret, "InvalidArgument") /\ proc.cpis = <<>>
        ELSE /\ Len(proc.cpis) = 1
             /\ proc.cpis[1].from = accounts[1]
             /\ proc.cpis[1].to = accounts[2]
             /\ IF proc.fn = "process_create_account"
                THEN /\ proc.cpis[1].instruction = "CreateAccount"
                     /\ proc.cpis[1].lamports = U64(500000000)
                     /\ proc.cpis[1].space = U64(10)
                     /\ proc.cpis[1].owner = crate_ID
                ELSE /\ proc.cpis[1].instruction = "Transfer"
                     /\ proc.cpis[1].lamports = U64(1000000000)

\* process_create_account of solana-nostd-entrypoint has been called with
\* three accounts and has invoked CreateAccount once
C24_Witness ==
    /\ SlicePatternProcessorCalled
    /\ proc.program = "solana-nostd-entrypoint" /\ proc.fn = "process_create_account"
    /\ Len(accounts) = 3 /\ accounts[3] # accounts[2]
    /\ Len(proc.cpis) = 1

\* C25: no create-account or transfer processor indexes the accounts slice out
\* of bounds: with fewer than two accounts process_create_account and
\* process_transfer of solana-program and the no_std run_create_account_bench
\* and run_transfer_bench of the example crates return an error value instead
\* of aborting.
C25_FewAccountsReturnError ==
    (/\ proc.called
     /\ \/ proc.program = "solana-program"
              /\ proc.fn \in {"process_create_account", "process_transfer"}
        \/ proc.program \in {"create-account-crate", "transfer-crate"}
     /\ Len(accounts) < 2) =>
        ~proc.ret.ok /\ proc.ret # Panicked

\* the operation a slot-hash processor of solana-nostd-entrypoint asks for
NostdOperation(fn) ==
    IF fn = "process_slot_hashes_get_entry" THEN IsEmpty
    ELSE IF fn = "process_slot_hashes_get_hash_interpolated" THEN GetHash(U64(0))
    ELSE GetPosition(U64(0))

\* a slot-hash processor of solana-nostd-entrypoint has been called
NostdSlotHashesCalled ==
    /\ proc.called /\ proc.program = "solana-nostd-entrypoint"
    /\ proc.fn \in NostdSlotHashProcessors

\* C26: the slot-hash processors of the nostd program return
\* Err(InvalidArgument) when there is no first account or its key is not the
\* SlotHashes sysvar id; otherwise they return Ok(()) exactly when
\* process_slot_hashes_bytes returns Ok, found or not, and hand on its
\* AccountDataTooSmall or ArithmeticOverflow error unchanged.
C26_NostdSlotHashProcessors ==
    NostdSlotHashesCalled =>
        IF Len(accounts) = 0 \/ accounts[1].key # sysvar_slot_hashes_ID
        THEN IsErr(proc.ret, "InvalidArgument")
        ELSE LET r == process_slot_hashes_bytes(accounts[1].data, NostdOperation(proc.fn)).ret
             IN  /\ IsOk(proc.ret, Unit) <=> r.ok
                 /\ ~r.ok => /\ r.v \in {"AccountDataTooSmall", "ArithmeticOverflow"}
                             /\ IsErr(proc.ret, r.v)

\* a search processor has handed on the ArithmeticOverflow of a length prefix
\* of u64::MAX
C26_Witness ==
    /\ NostdSlotHashesCalled
    /\ proc.fn = "process_slot_hashes_get_hash_interpolated"
    /\ Len(accounts) > 0 /\ accounts[1].key = sysvar_slot_hashes_ID
    /\ IsErr(proc.ret, "ArithmeticOverflow")

\* the processor that matches each variant of Instruction
MatchingProcessor ==
    {<<"Ping", "process_ping">>, <<"Log", "process_log">>,
     <<"Account", "process_account">>,
     <<"CreateAccount", "process_create_account">>,
     <<"Transfer", "process_transfer">>,
     <<"SlotHashesGetEntry", "process_slot_hashes_get_entry">>,
     <<"SlotHashesGetHashInterpolated", "process_slot_hashes_get_hash_interpolated">>,
     <<"SlotHashesPositionInterpolated", "process_slot_hashes_position_interpolated">>,
     <<"SlotHashesGetHashMidpoint", "process_slot_hashes_get_hash_midpoint">>,
     <<"SlotHashesPositionMidpoint", "process_slot_hashes_position_midpoint">>,
     <<"SlotHashesGetEntryUnchecked", "process_slot_hashes_get_entry_unchecked">>,
     <<"SlotHashesGetHashInterpolatedUnchecked",
       "process_slot_hashes_get_hash_interpolated_unchecked">>,
     <<"SlotHashesPositionInterpolatedUnchecked",
       "process_slot_hashes_position_interpolated_unchecked">>,
     <<"SlotHashesGetHashMidpointUnchecked",
       "process_slot_hashes_get_hash_midpoint_unchecked">>,
     <<"SlotHashesPositionMidpointUnchecked",
       "process_slot_hashes_position_midpoint_unchecked">>}

====
